---- MODULE Spec2Model ----
(***************************************************************************)
(* SlovakBench evaluation runner (src/src/evaluation/runner.py):           *)
(* EvaluationRunner.run dispatches the pending questions of a dataset as   *)
(* asyncio tasks bounded by a semaphore, each task running the retry loop  *)
(* of _evaluate_question and then appending its result and rewriting the   *)
(* checkpoint file under checkpoint_lock.  The process may be killed at    *)
(* any step and invoked again.                                             *)
(*                                                                         *)
(* Tasks interleave at every statement here, which includes every          *)
(* interleaving the single event loop can produce (it switches tasks only  *)
(* at an await).  Strings are TLA+ strings; Optional[str] is <<>> for None *)
(* and <<s>> for the string s; cost is in micro-dollars, time in ms.       *)
(***************************************************************************)
EXTENDS Integers, Sequences, FiniteSets, TLC

VARIABLES
    phase,              \* "idle" (no process), "running" (inside asyncio.run), "gathered",
                        \* "returned" (run returned), "saved" (save_results returned),
                        \* "recalculated" (the recalculate command ran afterwards),
                        \* "stored" (before a retry or reevaluate command), "rewritten"
                        \* (the command wrote the result file back)
    questions,          \* ids of data["questions"], in dataset order
    client,             \* per question id: the behaviour of self.llm.ainvoke for its prompt
    checkpoint_file,    \* the file at checkpoint_path: [exists, valid, results]
    completed_results,  \* run's completed_results as an ordered dict: sequence of QuestionResult
    all_results,        \* run's all_results list
    semaphore,          \* free slots of asyncio.Semaphore(concurrency)
    checkpoint_lock,    \* whether asyncio.Lock is held
    pc,                 \* per question id: position of its bounded_eval task
    attempt,            \* per question id: loop variable of the retry loop
    invocations,        \* per question id: ainvoke calls made in this run
    result,             \* per question id: <<>> or <<QuestionResult>> returned by _evaluate_question
    writes,             \* checkpoint.save calls completed in this run
    returned,           \* <<>> or <<EvaluationResult>> returned by run
    resume,             \* the resume argument of the current invocation, or of the next one
    crashes,            \* process kills so far
    first_run,          \* <<>> or <<[resume, file]>>: what the first invocation was given and found
    at_crash,           \* all_results of the process at its kill, until the next invocation
    result_file,        \* the file {output_dir}/{model_short}.json: [exists, data]
    saved_path,         \* what save_results returned: <<>> for None, else <<output_path>>
    sleeps,             \* per question id: seconds of each asyncio.sleep of its retry loop, in order
    call,               \* <<>> or <<[fn, args, out]>>: a direct call of a validator or parser function
    ud_phase,           \* run_benchmark of ud_runner.py: "idle" (no process), "running",
                        \* "written" (result file written, checkpoint not yet deleted),
                        \* "done" (run_benchmark returned)
    ud_client,          \* per task: the behaviour of llm.ainvoke for the prompts of the task
    ud_checkpoint,      \* the file of UDCheckpointManager: [exists, valid, results]
    ud_completed,       \* run_benchmark's completed_results: a function from keys to results
    ud_pending,         \* run_benchmark's pending_work that has not finished, as a set of keys
    ud_result_file,     \* the file at result_path: [exists, data]
    ud_output           \* <<>> or <<what run_benchmark returned>>

\* the state of the UD benchmark runner
ud_vars == <<ud_phase, ud_client, ud_checkpoint, ud_completed, ud_pending, ud_result_file,
             ud_output>>

\* the state of the exam runner and its commands
exam_vars == <<phase, questions, client, checkpoint_file, completed_results, all_results,
               semaphore, checkpoint_lock, pc, attempt, invocations, result, writes,
               returned, resume, crashes, first_run, at_crash, result_file, saved_path, sleeps,
               call>>

vars == <<phase, questions, client, checkpoint_file, completed_results, all_results,
          semaphore, checkpoint_lock, pc, attempt, invocations, result, writes,
          returned, resume, crashes, first_run, at_crash, result_file, saved_path, sleeps, call,
          ud_phase, ud_client, ud_checkpoint, ud_completed, ud_pending, ud_result_file,
          ud_output>>

-----------------------------------------------------------------------------
(* Bounds of the model *)

NumQuestions == 3
Concurrency == 2
MaxCrashes == 1

(* Program constants *)

DEFAULT_TIMEOUT == 300
max_retries == 3
SnippetLen == 250

-----------------------------------------------------------------------------
(* Python str operations *)

Min(a, b) == IF a < b THEN a ELSE b

Char(s, i) == SubSeq(s, i, i)

\* needle in hay
Contains(needle, hay) ==
    \E i \in 1..(Len(hay) - Len(needle) + 1) : SubSeq(hay, i, i + Len(needle) - 1) = needle

\* s[:n]
Prefix(s, n) == SubSeq(s, 1, Min(n, Len(s)))

LowerLetters == "abcdefghijklmnopqrstuvwxyz"
UpperLetters == "ABCDEFGHIJKLMNOPQRSTUVWXYZ"

LowerChar(c) ==
    IF \E i \in 1..Len(UpperLetters) : Char(UpperLetters, i) = c
    THEN Char(LowerLetters, CHOOSE i \in 1..Len(UpperLetters) : Char(UpperLetters, i) = c)
    ELSE c

UpperChar(c) ==
    IF \E i \in 1..Len(LowerLetters) : Char(LowerLetters, i) = c
    THEN Char(UpperLetters, CHOOSE i \in 1..Len(LowerLetters) : Char(LowerLetters, i) = c)
    ELSE c

RECURSIVE Lower(_)
Lower(s) == IF s = "" THEN "" ELSE LowerChar(Char(s, 1)) \o Lower(Tail(s))

RECURSIVE Upper(_)
Upper(s) == IF s = "" THEN "" ELSE UpperChar(Char(s, 1)) \o Upper(Tail(s))

IsSpace(c) == c \in {" ", "\t", "\n"}

RECURSIVE LStrip(_)
LStrip(s) == IF s # "" /\ IsSpace(Char(s, 1)) THEN LStrip(Tail(s)) ELSE s

RECURSIVE RStrip(_)
RStrip(s) ==
    IF s # "" /\ IsSpace(Char(s, Len(s))) THEN RStrip(SubSeq(s, 1, Len(s) - 1)) ELSE s

Strip(s) == RStrip(LStrip(s))

\* str(n) for the small naturals the model formats
Digits == "0123456789"

RECURSIVE Str(_)
Str(n) == IF n < 10 THEN Char(Digits, n + 1) ELSE Str(n \div 10) \o Char(Digits, (n % 10) + 1)

\* Optional[str]
None == <<>>
Some(s) == <<s>>
Truthy(opt) == opt # <<>> /\ opt[1] # ""

-----------------------------------------------------------------------------
(* answer_validator.py.  Texts are ASCII: remove_diacritics and               *)
(* normalize_dashes change only non-ASCII characters and leave them alone.    *)

IsDigit(c) == \E i \in 1..Len(Digits) : Char(Digits, i) = c

IsWord(c) ==
    \/ IsDigit(c)
    \/ c = "_"
    \/ \E i \in 1..Len(LowerLetters) : Char(LowerLetters, i) = c \/ Char(UpperLetters, i) = c

RECURSIVE KeepDigits(_)
KeepDigits(s) ==
    IF s = "" THEN ""
    ELSE (IF IsDigit(Char(s, 1)) THEN Char(s, 1) ELSE "") \o KeepDigits(Tail(s))

RECURSIVE RemovePunct(_)
RemovePunct(s) ==
    IF s = "" THEN ""
    ELSE (IF IsWord(Char(s, 1)) \/ IsSpace(Char(s, 1)) THEN Char(s, 1) ELSE "")
         \o RemovePunct(Tail(s))

RECURSIVE SqueezeSpaces(_)
SqueezeSpaces(s) ==
    IF s = "" THEN ""
    ELSE IF IsSpace(Char(s, 1)) /\ Len(s) > 1 /\ IsSpace(Char(s, 2)) THEN SqueezeSpaces(Tail(s))
    ELSE Char(s, 1) \o SqueezeSpaces(Tail(s))

\* " ".join(text.split())
CollapseWs(s) == SqueezeSpaces(Strip(s))

KnownSteps ==
    {"trim", "casefold", "collapse_ws", "remove_punct", "remove_diacritics", "numeric_only",
     "normalize_dashes"}

NormalizeStep(text, step) ==
    CASE step = "trim" -> Strip(text)
      [] step = "casefold" -> Lower(text)
      [] step = "collapse_ws" -> CollapseWs(text)
      [] step = "remove_punct" -> RemovePunct(text)
      [] step = "remove_diacritics" -> text
      [] step = "numeric_only" -> KeepDigits(text)
      [] step = "normalize_dashes" -> text
      [] OTHER -> text

\* a pipeline that stops at the first step it does not know
RECURSIVE normalize_until_unknown(_, _)
normalize_until_unknown(text, steps) ==
    IF steps = <<>> \/ Head(steps) \notin KnownSteps THEN text
    ELSE normalize_until_unknown(NormalizeStep(text, Head(steps)), Tail(steps))

RECURSIVE normalize(_, _)
normalize(text, steps) ==
    IF steps = <<>> THEN text
    ELSE normalize(NormalizeStep(text, Head(steps)), Tail(steps))

validate_mcq(answer, correct) == Prefix(Upper(Strip(answer)), 1) = Upper(correct)

\* a match on any accepted form that contains the answer
validate_short_text_substring(answer, accepted, steps) ==
    \E i \in 1..Len(accepted) : Contains(normalize(answer, steps), normalize(accepted[i], steps))

validate_short_text(answer, accepted, steps) ==
    \E i \in 1..Len(accepted) : normalize(accepted[i], steps) = normalize(answer, steps)

-----------------------------------------------------------------------------
(* The dataset: question id q is a short-text question with a numeric answer *)
(* (digits or the number word accepted, compared by digits only) when q is a *)
(* multiple of 3, else an MCQ when q is odd and a short-text question when q *)
(* is even.                                                                  *)

QuestionOf(q) ==
    IF q % 3 = 0
    THEN [id |-> q, task_type |-> "short_text", correct_option |-> "",
          accepted |-> <<"5", "pat">>, normalize |-> <<"numeric_only">>]
    ELSE IF q % 2 = 1
    THEN [id |-> q, task_type |-> "mcq", correct_option |-> "B",
          accepted |-> <<>>, normalize |-> <<>>]
    ELSE [id |-> q, task_type |-> "short_text", correct_option |-> "",
          accepted |-> <<"pes", "psik">>, normalize |-> <<"trim", "casefold">>]

Dataset == [i \in 1..NumQuestions |-> i]

\* An id no question of the dataset has: a checkpoint written for another
\* dataset file with the same stem holds such ids.
ForeignId == NumQuestions + 1

RECURSIVE JoinComma(_)
JoinComma(strs) ==
    IF strs = <<>> THEN ""
    ELSE IF Len(strs) = 1 THEN strs[1]
    ELSE strs[1] \o ", " \o JoinComma(Tail(strs))

\* a scan that looks at the first character only
FirstOptionHead(s) == IF s # "" /\ Contains(Char(s, 1), "ABCD") THEN Char(s, 1) ELSE ""

\* The character of response.upper() the MCQ loop returns, or "" if none
RECURSIVE FirstOption(_)
FirstOption(s) ==
    IF s = "" THEN ""
    ELSE IF Contains(Char(s, 1), "ABCD") THEN Char(s, 1)
    ELSE FirstOption(Tail(s))

parse_response(response, task_type) ==
    LET stripped == Strip(response) IN
    IF task_type = "mcq"
    THEN IF FirstOption(Upper(stripped)) # "" THEN FirstOption(Upper(stripped))
         ELSE Upper(Prefix(stripped, 1))
    ELSE stripped

validate_answer(question, model_answer) ==
    IF question.task_type = "mcq"
    THEN validate_mcq(model_answer, question.correct_option)
    ELSE validate_short_text(model_answer, question.accepted, question.normalize)

-----------------------------------------------------------------------------
(* The model client self.llm.ainvoke under asyncio.wait_for: one outcome per *)
(* invocation.  A behaviour gives `first` on the attempts below `nfirst` of  *)
(* a question and `then` afterwards, so the client is deterministic.         *)

OkOutcome(content) ==
    [kind |-> "ok", content |-> content, cost |-> 5, type |-> "", msg |-> "", ms |-> 120]

TimeoutOutcome ==
    [kind |-> "timeout", content |-> "", cost |-> 0, type |-> "", msg |-> "",
     ms |-> DEFAULT_TIMEOUT * 1000]

ErrorOutcome(type, msg) ==
    [kind |-> "error", content |-> "", cost |-> 0, type |-> type, msg |-> msg, ms |-> 40]

Always(outcome) == [first |-> outcome, nfirst |-> 0, then |-> outcome]
FirstThen(outcome, n, after) == [first |-> outcome, nfirst |-> n, then |-> after]

Err429 == ErrorOutcome("RateLimitError", "Error code: 429 - too many requests")
Err500 == ErrorOutcome("InternalServerError", "Error code: 500")
Err502 == ErrorOutcome("APIStatusError", "Error code: 502 - Bad Gateway")
Err503 == ErrorOutcome("APIStatusError", "Error code: 503 - Service Unavailable")
ErrRateLimit == ErrorOutcome("APIError", "Rate Limit exceeded, slow down")
ErrConnection == ErrorOutcome("APIConnectionError", "Connection error.")
ErrAuth == ErrorOutcome("AuthenticationError", "Error code: 401 - invalid api key")
ErrNoMessage == ErrorOutcome("CancelledError", "")

\* Clients of the concurrent runs: every question answered at once, every
\* question answered after one retried failure, the two mixed by question id,
\* and an endpoint that is down (rate-limited for question 1, timing out
\* after one retried failure for question 2, timing out at once for the others)
RunClients ==
    { [q \in 1..NumQuestions |-> Always(OkOutcome("B"))],
      [q \in 1..NumQuestions |-> FirstThen(Err503, 1, OkOutcome("pes"))],
      [q \in 1..NumQuestions |->
          IF q % 2 = 1 THEN FirstThen(Err429, 1, OkOutcome("c")) ELSE Always(OkOutcome(" Pes "))],
      [q \in 1..NumQuestions |->
          IF q = 1 THEN Always(Err429)
          ELSE IF q = 2 THEN FirstThen(Err503, 1, TimeoutOutcome)
          ELSE Always(TimeoutOutcome)] }

\* Clients of the single-question runs
DispatchClients ==
    { Always(OkOutcome("B")), Always(OkOutcome(" the answer is c")), Always(OkOutcome("")),
      Always(TimeoutOutcome),
      Always(Err429), Always(Err500), Always(Err502), Always(Err503),
      Always(ErrRateLimit), Always(ErrConnection), Always(ErrAuth), Always(ErrNoMessage),
      FirstThen(Err429, 1, OkOutcome("B")), FirstThen(Err503, 2, OkOutcome("pes")),
      FirstThen(Err500, 3, OkOutcome(" Pes ")), FirstThen(Err429, 2, TimeoutOutcome),
      FirstThen(Err503, 1, ErrAuth), FirstThen(Err429, 1, Err502) }

\* every outcome a client of the model gives
Outcomes ==
    UNION {{c[q].first, c[q].then} : q \in 1..NumQuestions, c \in RunClients}
    \cup UNION {{c.first, c.then} : c \in DispatchClients}

ClientOutcome(q, a) == IF a < client[q].nfirst THEN client[q].first ELSE client[q].then

-----------------------------------------------------------------------------
(* EvaluationRunner._evaluate_question *)

\* err_str = str(e) or type(e).__name__
ErrStr(e) == IF e.msg # "" THEN e.msg ELSE e.type

\* a policy that retries every failure
is_retryable_any(err_str) == TRUE

is_retryable(err_str) ==
    \/ Contains("429", err_str)
    \/ Contains("500", err_str)
    \/ Contains("503", err_str)
    \/ Contains("rate limit", Lower(err_str))

\* a retry guard that allows one retry more
ShouldRetryOffByOne(err_str, a) == is_retryable(err_str) /\ a <= max_retries

\* the guard of the backoff branch
ShouldRetry(err_str, a) == is_retryable(err_str) /\ a < max_retries

\* the error text built after a failure that is not retried
ErrorMessage(err_type, err_str) ==
    LET raw_snippet == IF Len(err_str) > SnippetLen THEN Prefix(err_str, SnippetLen) ELSE err_str IN
    IF Contains("429", err_str)
    THEN err_type \o ": Rate limit (429) | " \o raw_snippet
    ELSE IF Contains("500", err_str) \/ Contains("502", err_str) \/ Contains("503", err_str)
    THEN err_type \o ": Server error (5xx) | " \o raw_snippet
    ELSE IF Contains("Connection", err_str) \/ Contains("connection", err_str)
    THEN err_type \o ": Connection failed | " \o raw_snippet
    ELSE IF Contains("timeout", Lower(err_str))
    THEN err_type \o ": Timed out | " \o raw_snippet
    ELSE err_type \o ": " \o Prefix(err_str, SnippetLen)

CorrectAnswer(question) ==
    IF question.task_type = "mcq" THEN question.correct_option
    ELSE JoinComma(SubSeq(question.accepted, 1, Min(3, Len(question.accepted))))

\* the statements after the retry loop
QuestionResult(q, raw_response, cost, latency_ms, error) ==
    LET question == QuestionOf(q)
        model_answer == parse_response(raw_response, question.task_type)
    IN [question_id |-> q,
        task_type |-> question.task_type,
        model_answer |-> model_answer,
        correct_answer |-> CorrectAnswer(question),
        is_correct |-> IF ~Truthy(error) THEN validate_answer(question, model_answer) ELSE FALSE,
        cost_usd |-> cost,
        latency_ms |-> latency_ms,
        raw_response |-> raw_response,
        error |-> error]

\* a retry loop that treats a timeout as a retryable failure
IterationRetryTimeout(q, a, out) ==
    CASE out.kind = "ok" ->
            <<QuestionResult(q, out.content, out.cost, out.ms, None)>>
      [] out.kind = "timeout" ->
            IF a < max_retries THEN <<>>
            ELSE <<QuestionResult(q, "", 0, out.ms,
                                  Some("Timeout after " \o Str(DEFAULT_TIMEOUT) \o "s"))>>
      [] OTHER ->
            IF ShouldRetry(ErrStr(out), a) THEN <<>>
            ELSE <<QuestionResult(q, "", 0, out.ms, Some(ErrorMessage(out.type, ErrStr(out))))>>

\* One iteration of the retry loop on outcome `out`: <<>> when the loop sleeps
\* and continues, else <<the result>>
Iteration(q, a, out) ==
    CASE out.kind = "ok" ->
            <<QuestionResult(q, out.content, out.cost, out.ms, None)>>
      [] out.kind = "timeout" ->
            <<QuestionResult(q, "", 0, out.ms,
                             Some("Timeout after " \o Str(DEFAULT_TIMEOUT) \o "s"))>>
      [] OTHER ->
            IF ShouldRetry(ErrStr(out), a) THEN <<>>
            ELSE <<QuestionResult(q, "", 0, out.ms, Some(ErrorMessage(out.type, ErrStr(out))))>>

\* Iteration over the questions, attempts and outcomes of the model
IterationTable ==
    [q \in 1..NumQuestions, a \in 0..(max_retries + 1), out \in Outcomes |-> Iteration(q, a, out)]

\* _evaluate_question run to its return from attempt `a` on
RECURSIVE evaluate_question(_, _)
evaluate_question(q, a) ==
    LET r == Iteration(q, a, ClientOutcome(q, a)) IN
    IF r = <<>> THEN evaluate_question(q, a + 1) ELSE r[1]

-----------------------------------------------------------------------------
(* CheckpointManager.  The file holds a JSON document; an entry of its       *)
(* "results" array is a function from field names to values.  A file opened  *)
(* for writing and not yet dumped is truncated and does not parse.           *)

Get(obj, key, default) == IF key \in DOMAIN obj THEN obj[key] ELSE default

\* the dict save() writes for one result
ToJson(r) ==
    [question_id |-> r.question_id,
     task_type |-> r.task_type,
     model_answer |-> r.model_answer,
     correct_answer |-> r.correct_answer,
     is_correct |-> r.is_correct,
     cost_usd |-> r.cost_usd,
     latency_ms |-> r.latency_ms,
     raw_response |-> r.raw_response,
     error |-> r.error]

RequiredFields == {"question_id", "task_type", "model_answer", "correct_answer", "is_correct"}

\* a load that does not restore raw_response
FromJsonNoRaw(j) ==
    [question_id |-> j["question_id"],
     task_type |-> j["task_type"],
     model_answer |-> j["model_answer"],
     correct_answer |-> j["correct_answer"],
     is_correct |-> j["is_correct"],
     cost_usd |-> Get(j, "cost_usd", 0),
     latency_ms |-> Get(j, "latency_ms", 0),
     raw_response |-> "",
     error |-> Get(j, "error", None)]

\* the QuestionResult load() builds from one entry
FromJson(j) ==
    [question_id |-> j["question_id"],
     task_type |-> j["task_type"],
     model_answer |-> j["model_answer"],
     correct_answer |-> j["correct_answer"],
     is_correct |-> j["is_correct"],
     cost_usd |-> Get(j, "cost_usd", 0),
     latency_ms |-> Get(j, "latency_ms", 0),
     raw_response |-> Get(j, "raw_response", ""),
     error |-> Get(j, "error", None)]

\* results[key] = value on a dict kept as the sequence of its values in insertion order
DictPut(d, r) ==
    IF \E i \in 1..Len(d) : d[i].question_id = r.question_id
    THEN [i \in 1..Len(d) |-> IF d[i].question_id = r.question_id THEN r ELSE d[i]]
    ELSE Append(d, r)

RECURSIVE DictOf(_, _)
DictOf(d, entries) ==
    IF entries = <<>> THEN d ELSE DictOf(DictPut(d, FromJson(Head(entries))), Tail(entries))

Keys(d) == {d[i].question_id : i \in 1..Len(d)}

AbsentFile == [exists |-> FALSE, valid |-> FALSE, results |-> <<>>]
TruncatedFile == [exists |-> TRUE, valid |-> FALSE, results |-> <<>>]
WrittenFile(results) ==
    [exists |-> TRUE, valid |-> TRUE, results |-> [i \in 1..Len(results) |-> ToJson(results[i])]]

\* an entry of "results" has every key load() subscripts
Complete(entry) == RequiredFields \subseteq DOMAIN entry

\* a load that skips the entries it cannot read
load_skip_incomplete(file) ==
    IF ~file.exists THEN <<>>
    ELSE IF ~file.valid THEN <<>>
    ELSE DictOf(<<>>, SelectSeq(file.results, Complete))

load(file) ==
    IF ~file.exists THEN <<>>
    ELSE IF ~file.valid THEN <<>>
    ELSE IF \E i \in 1..Len(file.results) : ~Complete(file.results[i])
    THEN <<>>
    ELSE DictOf(<<>>, file.results)

\* save(): open(checkpoint_path, "w") truncates, json.dump then writes the document
save_open(file) == TruncatedFile
\* a save that writes only the newest result
save_dump_delta(file, results) == WrittenFile(<<results[Len(results)]>>)
save_dump(file, results) == WrittenFile(results)

\* a delete that leaves the file in place
delete_nothing(file) == file

delete(file) == AbsentFile

-----------------------------------------------------------------------------
(* Checkpoint files an invocation can find: none, or one left by a killed    *)
(* run of this model on this dataset, or on another dataset file of the same *)
(* stem (both map to the same checkpoint_path).                              *)

StoredOk(q) == QuestionResult(q, "B", 5, 120, None)
StoredErr(q) == QuestionResult(q, "", 0, 40, Some("APIError: Rate limit (429) | 429"))

\* a file that parses and whose second entry lacks keys load() needs
IncompleteEntryFile ==
    [exists |-> TRUE, valid |-> TRUE,
     results |-> <<ToJson(StoredOk(1)), [question_id |-> 2, task_type |-> "short_text"]>>]

InitialFiles ==
    { AbsentFile,
      TruncatedFile,
      IncompleteEntryFile,
      WrittenFile(<<StoredErr(2), StoredOk(1)>>),
      WrittenFile(<<StoredOk(1), StoredOk(ForeignId)>>),
      WrittenFile([i \in 1..NumQuestions |-> StoredOk(i)]) }

\* Files found by an invocation with resume=False
FreshFiles == { AbsentFile, WrittenFile(<<StoredOk(1), StoredOk(ForeignId)>>) }

-----------------------------------------------------------------------------
(* EvaluationRunner.run *)

AllIds == 1..NumQuestions

QuestionIds == {questions[i] : i \in 1..Len(questions)}

\* a filter that dispatches again the questions whose loaded result has an error
PendingQuestionsRetryErrored(qs, completed) ==
    SelectSeq(qs, LAMBDA q :
        ~\E i \in 1..Len(completed) :
            completed[i].question_id = q /\ ~Truthy(completed[i].error))

\* no filter: every question is pending
PendingQuestionsAll(qs, completed) == qs

\* [q for q in questions if q["id"] not in completed_results]
PendingQuestions(qs, completed) == SelectSeq(qs, LAMBDA q : q \notin Keys(completed))

\* sum(1 for r in all_results if r.is_correct)
CorrectCount(results) == Cardinality({i \in 1..Len(results) : results[i].is_correct})

\* a count of the results that are not correct
ErrorCountIncorrect(results) == Cardinality({i \in 1..Len(results) : ~results[i].is_correct})

\* sum(1 for r in all_results if r.error)
ErrorCount(results) == Cardinality({i \in 1..Len(results) : Truthy(results[i].error)})

\* the float quotient n / d, kept as the exact fraction
Ratio(n, d) == [num |-> n, den |-> d]

\* the float 0.0
Zero == Ratio(0, 1)

\* sum(1 for r in all_results if r.task_type == t)
TypeTotal(results, t) == Cardinality({i \in 1..Len(results) : results[i].task_type = t})

\* sum(1 for r in all_results if r.task_type == t and r.is_correct)
TypeCorrect(results, t) ==
    Cardinality({i \in 1..Len(results) : results[i].task_type = t /\ results[i].is_correct})

\* mcq_correct / mcq_total if mcq_total > 0 else None (and the same for short_text)
TypeAccuracy(results, t) ==
    IF TypeTotal(results, t) > 0
    THEN Some(Ratio(TypeCorrect(results, t), TypeTotal(results, t)))
    ELSE None

\* an accuracy over the results without an error
AccuracyOfAnswered(results) ==
    IF Len(results) - ErrorCount(results) > 0
    THEN Ratio(CorrectCount(results), Len(results) - ErrorCount(results))
    ELSE Zero

\* correct / total if total > 0 else 0.0
Accuracy(results) ==
    IF Len(results) > 0 THEN Ratio(CorrectCount(results), Len(results)) ELSE Zero

\* the aggregates computed after asyncio.run returns
EvaluationResult(results) ==
    [total_questions |-> Len(results),
     correct_count |-> CorrectCount(results),
     accuracy |-> Accuracy(results),
     mcq_accuracy |-> TypeAccuracy(results, "mcq"),
     short_text_accuracy |-> TypeAccuracy(results, "short_text"),
     error_count |-> ErrorCount(results),
     results |-> results]

\* the memory of a process that is not running
NoProcess ==
    /\ completed_results' = <<>>
    /\ all_results' = <<>>
    /\ semaphore' = 0
    /\ checkpoint_lock' = FALSE
    /\ pc' = [q \in AllIds |-> "none"]
    /\ attempt' = [q \in AllIds |-> 0]
    /\ invocations' = [q \in AllIds |-> 0]
    /\ result' = [q \in AllIds |-> <<>>]
    /\ writes' = 0
    /\ returned' = <<>>
    /\ sleeps' = [q \in AllIds |-> <<>>]

\* run(dataset_path, concurrency, resume) up to the creation of the tasks
StartRun ==
    /\ phase = "idle"
    /\ LET completed == IF resume THEN load(checkpoint_file) ELSE <<>>
           pending == PendingQuestions(questions, completed)
       IN /\ completed_results' = completed
          /\ all_results' = completed
          /\ pc' = [q \in AllIds |->
                      IF \E i \in 1..Len(pending) : pending[i] = q THEN "sem" ELSE "none"]
    /\ semaphore' = Concurrency
    /\ checkpoint_lock' = FALSE
    /\ attempt' = [q \in AllIds |-> 0]
    /\ invocations' = [q \in AllIds |-> 0]
    /\ result' = [q \in AllIds |-> <<>>]
    /\ writes' = 0
    /\ returned' = <<>>
    /\ first_run' = IF first_run = <<>>
                    THEN <<[resume |-> resume, file |-> checkpoint_file]>>
                    ELSE first_run
    /\ at_crash' = <<>>
    /\ phase' = "running"
    /\ sleeps' = [q \in AllIds |-> <<>>]
    /\ UNCHANGED <<questions, client, checkpoint_file, resume, crashes, result_file, saved_path, call, ud_vars>>

\* a semaphore whose acquire never waits
SemaphoreFreeAlways == TRUE

SemaphoreFree == semaphore > 0

\* async with semaphore: entry
AcquireSemaphore(q) ==
    /\ phase = "running"
    /\ pc[q] = "sem"
    /\ SemaphoreFree
    /\ semaphore' = semaphore - 1
    /\ pc' = [pc EXCEPT ![q] = "call"]
    /\ UNCHANGED <<phase, questions, client, checkpoint_file, completed_results, all_results,
                   checkpoint_lock, attempt, invocations, result, writes, returned, resume,
                   crashes, first_run, at_crash,
                   result_file, saved_path, sleeps, call, ud_vars>>

\* one await of ainvoke under wait_for, up to the sleep or the return of
\* _evaluate_question
Invoke(q) ==
    /\ phase = "running"
    /\ pc[q] = "call"
    /\ invocations' = [invocations EXCEPT ![q] = @ + 1]
    /\ LET r == IterationTable[q, attempt[q], ClientOutcome(q, attempt[q])] IN
       IF r = <<>>
       THEN /\ pc' = [pc EXCEPT ![q] = "sleep"]
            /\ UNCHANGED result
       ELSE /\ pc' = [pc EXCEPT ![q] = "lock"]
            /\ result' = [result EXCEPT ![q] = r]
    /\ UNCHANGED <<phase, questions, client, checkpoint_file, completed_results, all_results,
                   semaphore, checkpoint_lock, attempt, writes, returned, resume, crashes,
                   first_run, at_crash,
                   result_file, saved_path, sleeps, call, ud_vars>>

\* a backoff that grows linearly
BackoffSecondsLinear(a) == 2 * a

\* 2 ** attempt
BackoffSeconds(a) == 2 ^ a

\* await asyncio.sleep(2 ** attempt); continue
Backoff(q) ==
    /\ phase = "running"
    /\ pc[q] = "sleep"
    /\ sleeps' = [sleeps EXCEPT ![q] = Append(@, BackoffSeconds(attempt[q]))]
    /\ attempt' = [attempt EXCEPT ![q] = @ + 1]
    /\ pc' = [pc EXCEPT ![q] = "call"]
    /\ UNCHANGED <<phase, questions, client, checkpoint_file, completed_results, all_results,
                   semaphore, checkpoint_lock, invocations, result, writes, returned, resume,
                   crashes, first_run, at_crash,
                   result_file, saved_path, call, ud_vars>>

\* a lock whose acquire never waits
LockFreeAlways == TRUE

LockFree == ~checkpoint_lock

\* async with checkpoint_lock: entry
AcquireLock(q) ==
    /\ phase = "running"
    /\ pc[q] = "lock"
    /\ LockFree
    /\ checkpoint_lock' = TRUE
    /\ pc' = [pc EXCEPT ![q] = "append"]
    /\ UNCHANGED <<phase, questions, client, checkpoint_file, completed_results, all_results,
                   semaphore, attempt, invocations, result, writes, returned, resume, crashes,
                   first_run, at_crash,
                   result_file, saved_path, sleeps, call, ud_vars>>

\* an append that adds the result twice
AppendResultTwice(q) ==
    /\ phase = "running"
    /\ pc[q] = "append"
    /\ all_results' = Append(Append(all_results, result[q][1]), result[q][1])
    /\ pc' = [pc EXCEPT ![q] = "open"]
    /\ UNCHANGED <<phase, questions, client, checkpoint_file, completed_results, semaphore,
                   checkpoint_lock, attempt, invocations, result, writes, returned, resume,
                   crashes, first_run, at_crash,
                   result_file, saved_path, sleeps, call, ud_vars>>

\* all_results.append(result)
AppendResult(q) ==
    /\ phase = "running"
    /\ pc[q] = "append"
    /\ all_results' = Append(all_results, result[q][1])
    /\ pc' = [pc EXCEPT ![q] = "open"]
    /\ UNCHANGED <<phase, questions, client, checkpoint_file, completed_results, semaphore,
                   checkpoint_lock, attempt, invocations, result, writes, returned, resume,
                   crashes, first_run, at_crash,
                   result_file, saved_path, sleeps, call, ud_vars>>

\* checkpoint.save: open(self.checkpoint_path, "w")
SaveOpen(q) ==
    /\ phase = "running"
    /\ pc[q] = "open"
    /\ checkpoint_file' = save_open(checkpoint_file)
    /\ pc' = [pc EXCEPT ![q] = "dump"]
    /\ UNCHANGED <<phase, questions, client, completed_results, all_results, semaphore,
                   checkpoint_lock, attempt, invocations, result, writes, returned, resume,
                   crashes, first_run, at_crash,
                   result_file, saved_path, sleeps, call, ud_vars>>

\* checkpoint.save: json.dump(data, f) and the close of the file
SaveDump(q) ==
    /\ phase = "running"
    /\ pc[q] = "dump"
    /\ checkpoint_file' = save_dump(checkpoint_file, all_results)
    /\ writes' = writes + 1
    /\ pc' = [pc EXCEPT ![q] = "unlock"]
    /\ UNCHANGED <<phase, questions, client, completed_results, all_results, semaphore,
                   checkpoint_lock, attempt, invocations, result, returned, resume, crashes,
                   first_run, at_crash,
                   result_file, saved_path, sleeps, call, ud_vars>>

\* an exit that releases the lock and keeps the semaphore slot
ReleaseKeepsSlot(q) ==
    /\ phase = "running"
    /\ pc[q] = "unlock"
    /\ checkpoint_lock' = FALSE
    /\ pc' = [pc EXCEPT ![q] = "done"]
    /\ UNCHANGED <<phase, questions, client, checkpoint_file, completed_results, all_results,
                   semaphore, attempt, invocations, result, writes, returned, resume, crashes,
                   first_run, at_crash,
                   result_file, saved_path, sleeps, call, ud_vars>>

\* async with checkpoint_lock: exit; pbar.update(1); return result;
\* async with semaphore: exit
Release(q) ==
    /\ phase = "running"
    /\ pc[q] = "unlock"
    /\ checkpoint_lock' = FALSE
    /\ semaphore' = semaphore + 1
    /\ pc' = [pc EXCEPT ![q] = "done"]
    /\ UNCHANGED <<phase, questions, client, checkpoint_file, completed_results, all_results,
                   attempt, invocations, result, writes, returned, resume, crashes,
                   first_run, at_crash,
                   result_file, saved_path, sleeps, call, ud_vars>>

\* await asyncio.gather(*tasks) and asyncio.run(run_all()) return
Gather ==
    /\ phase = "running"
    /\ \A q \in AllIds : pc[q] \in {"none", "done"}
    /\ phase' = "gathered"
    /\ UNCHANGED <<questions, client, checkpoint_file, completed_results, all_results,
                   semaphore, checkpoint_lock, pc, attempt, invocations, result, writes,
                   returned, resume, crashes, first_run, at_crash,
                   result_file, saved_path, sleeps, call, ud_vars>>

\* the statistics, checkpoint.delete() and the return of run
Finish ==
    /\ phase = "gathered"
    /\ checkpoint_file' = delete(checkpoint_file)
    /\ returned' = <<EvaluationResult(all_results)>>
    /\ phase' = "returned"
    /\ UNCHANGED <<questions, client, completed_results, all_results, semaphore,
                   checkpoint_lock, pc, attempt, invocations, result, writes, resume, crashes,
                   first_run, at_crash,
                   result_file, saved_path, sleeps, call, ud_vars>>

\* the process is killed: its memory is lost, the file stays as it is; the
\* command is then invoked again with the default resume=True
Crash ==
    /\ phase \in {"running", "gathered"}
    /\ crashes < MaxCrashes
    /\ crashes' = crashes + 1
    /\ phase' = "idle"
    /\ NoProcess
    /\ resume' = TRUE
    /\ at_crash' = all_results
    /\ UNCHANGED <<questions, client, checkpoint_file, first_run, result_file, saved_path, call, ud_vars>>

\* an exception escapes checkpoint.save (open or json.dump raises): gather
\* re-raises it, run does not reach checkpoint.delete() and the command ends;
\* the file stays as the failed call left it
AbortOnSaveError(q) ==
    /\ phase = "running"
    /\ pc[q] \in {"open", "dump"}
    /\ crashes < MaxCrashes
    /\ crashes' = crashes + 1
    /\ phase' = "idle"
    /\ NoProcess
    /\ resume' = TRUE
    /\ at_crash' = all_results
    /\ UNCHANGED <<questions, client, checkpoint_file, first_run, result_file, saved_path, call, ud_vars>>

-----------------------------------------------------------------------------
(* save_results and the result file of the model in the output directory;    *)
(* the recalculate command of main.py, which re-validates a result file      *)

\* MAX_ERROR_RATE = 0.20, in percent
MAX_ERROR_RATE_PERCENT == 20

OutputPath == "data/results/model.json"

\* one entry of "results" in EvaluationResult.to_dict()
ResultToDict(r) ==
    [question_id |-> r.question_id,
     task_type |-> r.task_type,
     model_answer |-> r.model_answer,
     correct_answer |-> r.correct_answer,
     is_correct |-> r.is_correct,
     cost_usd |-> r.cost_usd,
     latency_ms |-> r.latency_ms,
     error |-> r.error]

to_dict(res) ==
    [total_questions |-> res.total_questions,
     correct_count |-> res.correct_count,
     accuracy |-> res.accuracy,
     mcq_accuracy |-> res.mcq_accuracy,
     short_text_accuracy |-> res.short_text_accuracy,
     error_count |-> res.error_count,
     results |-> [i \in 1..Len(res.results) |-> ResultToDict(res.results[i])]]

AbsentResultFile == [exists |-> FALSE, data |-> <<>>]
WrittenResultFile(data) == [exists |-> TRUE, data |-> <<data>>]

\* a guard that also refuses a result exactly at the threshold
ErrorRateAtLeastMax(res) ==
    /\ res.total_questions > 0
    /\ 100 * res.error_count >= MAX_ERROR_RATE_PERCENT * res.total_questions

\* the guard of save_results: error_count / total_questions > MAX_ERROR_RATE.
\* The quotient is a binary float compared with the float 0.20; for counts
\* below 2^50 that is the exact comparison of the fractions.
ErrorRateTooHigh(res) ==
    /\ res.total_questions > 0
    /\ 100 * res.error_count > MAX_ERROR_RATE_PERCENT * res.total_questions

\* a sink that writes the file before it looks at the error rate
save_results_write_first(file, res) ==
    [file |-> WrittenResultFile(to_dict(res)),
     path |-> IF ErrorRateTooHigh(res) THEN None ELSE Some(OutputPath)]

\* save_results(result, output_dir): the file afterwards and the value returned
save_results(file, res) ==
    IF ErrorRateTooHigh(res)
    THEN [file |-> file, path |-> None]
    ELSE [file |-> WrittenResultFile(to_dict(res)), path |-> Some(OutputPath)]

\* saved_path = save_results(result, str(output_dir)) in the command that called run
SaveResults ==
    /\ phase = "returned"
    /\ LET out == save_results(result_file, returned[1]) IN
          /\ result_file' = out.file
          /\ saved_path' = out.path
    /\ phase' = "saved"
    /\ UNCHANGED <<questions, client, checkpoint_file, completed_results, all_results,
                   semaphore, checkpoint_lock, pc, attempt, invocations, result, writes,
                   returned, resume, crashes, first_run, at_crash, sleeps, call, ud_vars>>

\* recalculate: one entry of a result file re-validated against the dataset
Revalidate(r) ==
    IF r.question_id \notin QuestionIds THEN r
    ELSE [r EXCEPT !.is_correct =
             validate_answer(QuestionOf(r.question_id), Get(r, "model_answer", ""))]

\* recalculate: a per-type accuracy over the entries of the type without an
\* error, left as it was when there is none
RecalcTypeAccuracy(results, t, old) ==
    LET answered == {i \in 1..Len(results) :
                        results[i].task_type = t /\ ~Truthy(Get(results[i], "error", None))}
    IN IF answered # {}
       THEN Some(Ratio(Cardinality({i \in answered : results[i].is_correct}),
                       Cardinality(answered)))
       ELSE old

\* recalculate: the document written back for one result file
recalculate(data) ==
    LET updated_results == [i \in 1..Len(data.results) |-> Revalidate(data.results[i])]
        changed == updated_results # data.results
        original_count == Len(data.results)
    IN IF changed /\ original_count > 0
       THEN [data EXCEPT !.results = updated_results,
                         !.correct_count = CorrectCount(updated_results),
                         !.accuracy = Ratio(CorrectCount(updated_results), original_count),
                         !.total_questions = original_count,
                         !.mcq_accuracy = RecalcTypeAccuracy(updated_results, "mcq", @),
                         !.short_text_accuracy =
                             RecalcTypeAccuracy(updated_results, "short_text", @)]
       ELSE data

\* the recalculate command run on the year of the dataset
Recalculate ==
    /\ phase = "saved"
    /\ \E dry_run \in BOOLEAN :
          result_file' = IF result_file.exists /\ ~dry_run
                         THEN WrittenResultFile(recalculate(result_file.data[1]))
                         ELSE result_file
    /\ phase' = "recalculated"
    /\ UNCHANGED <<questions, client, checkpoint_file, completed_results, all_results,
                   semaphore, checkpoint_lock, pc, attempt, invocations, result, writes,
                   returned, resume, crashes, first_run, at_crash, saved_path, sleeps, call, ud_vars>>

-----------------------------------------------------------------------------
(* ud_runner.py: run_benchmark evaluates every sentence of the benchmark on  *)
(* the tasks pos, lemma and dep, checkpoints after every item and writes a   *)
(* result file unless every task failed.  The sentences of a task are        *)
(* interchangeable (a client's outcome depends on the task alone), so of the *)
(* pending items of a task the one with the lowest sentence id finishes      *)
(* next: every set of finished items is represented by one of its size.      *)

NumSentences == 5
SentenceWords == 2

\* r["errors"] >= 5: the number of failed items that makes a task failed
FAILED_ERRORS == 5

Tasks == {"pos", "lemma", "dep"}

\* all_work as keys f"{task}:{sent_id}"
AllWork == Tasks \X (1..NumSentences)

\* what evaluate_sentence returns: words of the sentence predicted right, the
\* error text str(e)[:100] of an exception (it may be empty)
evaluate_sentence(kind) ==
    CASE kind = "ok" ->
            [correct |-> 1, total |-> SentenceWords, cost |-> 5, latency |-> 120, error |-> None]
      [] kind = "error" ->
            [correct |-> 0, total |-> SentenceWords, cost |-> 0, latency |-> 0,
             error |-> Some("Error code: 429 - too many requests")]
      [] OTHER ->
            [correct |-> 0, total |-> SentenceWords, cost |-> 0, latency |-> 0, error |-> Some("")]

\* Clients: per task, every call answered, every call failing, or every call
\* failing with an exception without a message
UDClients ==
    { [t \in Tasks |-> "ok"],
      [t \in Tasks |-> "error"],
      [t \in Tasks |-> IF t = "pos" THEN "ok" ELSE "error"],
      [t \in Tasks |-> IF t = "dep" THEN "error_no_message" ELSE "error"] }

UDAbsentFile == [exists |-> FALSE, valid |-> FALSE, results |-> <<>>]
UDTruncatedFile == [exists |-> TRUE, valid |-> FALSE, results |-> <<>>]
UDWrittenFile(results) == [exists |-> TRUE, valid |-> TRUE, results |-> results]

\* a load that keeps only the items without an error
ud_load_answered(file) ==
    IF ~file.exists THEN <<>>
    ELSE IF ~file.valid THEN <<>>
    ELSE [k \in {j \in DOMAIN file.results : ~Truthy(file.results[j].error)} |-> file.results[k]]

\* UDCheckpointManager.load() and checkpoint_data.get("results", {})
ud_load(file) ==
    IF ~file.exists THEN <<>>
    ELSE IF ~file.valid THEN <<>>
    ELSE file.results

\* completed_results[key] = result
UDPut(completed, key, r) ==
    [k \in (DOMAIN completed) \cup {key} |-> IF k = key THEN r ELSE completed[k]]

\* the items of a task in completed_results
TaskItems(completed, task) == {k \in DOMAIN completed : k[1] = task}

RECURSIVE SumOver(_, _, _)
SumOver(completed, keys, field) ==
    IF keys = {} THEN 0
    ELSE LET k == CHOOSE x \in keys : TRUE
         IN completed[k][field] + SumOver(completed, keys \ {k}, field)

\* task_results[task]
TaskResult(completed, task) ==
    LET items == TaskItems(completed, task)
        total_correct == SumOver(completed, items, "correct")
        total_tokens == SumOver(completed, items, "total")
    IN [task |-> task,
        accuracy |-> IF total_tokens # 0 THEN Ratio(total_correct, total_tokens) ELSE Zero,
        correct |-> total_correct,
        total |-> total_tokens,
        errors |-> Cardinality({k \in items : Truthy(completed[k].error)})]

\* the output dictionary of run_benchmark
UDOutput(completed) ==
    LET task_results == [t \in Tasks |-> TaskResult(completed, t)]
    IN [total_sentences |-> NumSentences,
        error_count |-> task_results["pos"].errors + task_results["lemma"].errors
                        + task_results["dep"].errors,
        tasks |-> task_results]

\* all(r["errors"] >= 5 for r in task_results.values())
all_failed(completed) ==
    \A t \in Tasks : TaskResult(completed, t).errors >= FAILED_ERRORS

\* run_benchmark up to the gather: the skip of a model that is complete, else
\* the load of the checkpoint and the list of pending work
UDStart ==
    /\ ud_phase \in {"idle", "done"}
    /\ \E force \in BOOLEAN :
          IF ud_result_file.exists /\ ~ud_checkpoint.exists /\ ~force
          THEN /\ ud_phase' = "done"
               /\ ud_output' = ud_result_file.data
               /\ ud_completed' = <<>>
               /\ ud_pending' = {}
          ELSE /\ ud_phase' = "running"
               /\ ud_output' = <<>>
               /\ ud_completed' = ud_load(ud_checkpoint)
               /\ ud_pending' = {k \in AllWork : k \notin DOMAIN ud_load(ud_checkpoint)}
    /\ UNCHANGED <<ud_client, ud_checkpoint, ud_result_file>>
    /\ UNCHANGED exam_vars

\* the pending item of the task that finishes next
NextItem(task) ==
    CHOOSE k \in ud_pending :
        k[1] = task /\ \A j \in ud_pending : j[1] = task => k[2] <= j[2]

\* eval_one for one item: evaluate_sentence, then under checkpoint_lock
\* completed_results[key] = result and checkpoint.save (a call without an await)
UDEvalOne(task) ==
    /\ ud_phase = "running"
    /\ \E k \in ud_pending : k[1] = task
    /\ LET key == NextItem(task)
           after == UDPut(ud_completed, key, evaluate_sentence(ud_client[task]))
       IN /\ ud_completed' = after
          /\ ud_checkpoint' = UDWrittenFile(after)
          /\ ud_pending' = ud_pending \ {key}
    /\ UNCHANGED <<ud_phase, ud_client, ud_result_file, ud_output>>
    /\ UNCHANGED exam_vars

\* the statements after the gather: the aggregation, and either the return
\* without a result file or the write of the result file
UDAggregate ==
    /\ ud_phase = "running"
    /\ ud_pending = {}
    /\ ud_output' = <<UDOutput(ud_completed)>>
    /\ IF all_failed(ud_completed)
       THEN /\ ud_phase' = "done"
            /\ UNCHANGED ud_result_file
       ELSE /\ ud_phase' = "written"
            /\ ud_result_file' = [exists |-> TRUE, data |-> <<UDOutput(ud_completed)>>]
    /\ UNCHANGED <<ud_client, ud_checkpoint, ud_completed, ud_pending>>
    /\ UNCHANGED exam_vars

\* checkpoint.delete() and the return of output
UDDelete ==
    /\ ud_phase = "written"
    /\ ud_checkpoint' = UDAbsentFile
    /\ ud_phase' = "done"
    /\ UNCHANGED <<ud_client, ud_completed, ud_pending, ud_result_file, ud_output>>
    /\ UNCHANGED exam_vars

\* the process is killed between two statements: its memory is lost
UDKill ==
    /\ ud_phase \in {"running", "written"}
    /\ ud_phase' = "idle"
    /\ ud_completed' = <<>>
    /\ ud_pending' = {}
    /\ ud_output' = <<>>
    /\ UNCHANGED <<ud_client, ud_checkpoint, ud_result_file>>
    /\ UNCHANGED exam_vars

\* the process is killed inside checkpoint.save, after open(path, "w") and
\* before json.dump has written the document
UDKillInSave ==
    /\ ud_phase = "running"
    /\ ud_pending # {}
    /\ ud_checkpoint' = UDTruncatedFile
    /\ ud_phase' = "idle"
    /\ ud_completed' = <<>>
    /\ ud_pending' = {}
    /\ ud_output' = <<>>
    /\ UNCHANGED <<ud_client, ud_result_file>>
    /\ UNCHANGED exam_vars

\* between two calls of run_benchmark the endpoint starts to answer
UDRecover ==
    /\ ud_phase \in {"idle", "done"}
    /\ ud_client # [t \in Tasks |-> "ok"]
    /\ ud_client' = [t \in Tasks |-> "ok"]
    /\ UNCHANGED <<ud_phase, ud_checkpoint, ud_completed, ud_pending, ud_result_file,
                   ud_output>>
    /\ UNCHANGED exam_vars

\* no run_benchmark has been called
UDIdle ==
    /\ ud_phase = "idle"
    /\ ud_client = [t \in Tasks |-> "ok"]
    /\ ud_checkpoint = UDAbsentFile
    /\ ud_completed = <<>>
    /\ ud_pending = {}
    /\ ud_result_file = [exists |-> FALSE, data |-> <<>>]
    /\ ud_output = <<>>

\* the result file of an earlier complete run of the model
UDHistoricalResultFile ==
    [exists |-> TRUE,
     data |-> <<UDOutput([k \in AllWork |-> evaluate_sentence("ok")])>>]

\* run_benchmark for one model, with no checkpoint, beside no result file or
\* the one of an earlier run
InitUD ==
    /\ ud_phase = "idle"
    /\ ud_client \in UDClients
    /\ ud_checkpoint = UDAbsentFile
    /\ ud_completed = <<>>
    /\ ud_pending = {}
    /\ ud_result_file \in {[exists |-> FALSE, data |-> <<>>], UDHistoricalResultFile}
    /\ ud_output = <<>>
    /\ questions = <<>>
    /\ client = [q \in AllIds |-> Always(OkOutcome("B"))]
    /\ resume = TRUE
    /\ checkpoint_file = AbsentFile
    /\ result_file = AbsentResultFile
    /\ phase = "idle"
    /\ completed_results = <<>>
    /\ all_results = <<>>
    /\ semaphore = 0
    /\ checkpoint_lock = FALSE
    /\ pc = [q \in AllIds |-> "none"]
    /\ attempt = [q \in AllIds |-> 0]
    /\ invocations = [q \in AllIds |-> 0]
    /\ result = [q \in AllIds |-> <<>>]
    /\ writes = 0
    /\ returned = <<>>
    /\ crashes = 0
    /\ first_run = <<>>
    /\ at_crash = <<>>
    /\ saved_path = None
    /\ sleeps = [q \in AllIds |-> <<>>]
    /\ call = <<>>

UDNext ==
    \/ UDStart
    \/ \E task \in Tasks : UDEvalOne(task)
    \/ UDAggregate
    \/ UDDelete
    \/ UDKill
    \/ UDKillInSave
    \/ UDRecover

-----------------------------------------------------------------------------

InitProcess ==
    /\ phase = "idle"
    /\ completed_results = <<>>
    /\ all_results = <<>>
    /\ semaphore = 0
    /\ checkpoint_lock = FALSE
    /\ pc = [q \in AllIds |-> "none"]
    /\ attempt = [q \in AllIds |-> 0]
    /\ invocations = [q \in AllIds |-> 0]
    /\ result = [q \in AllIds |-> <<>>]
    /\ writes = 0
    /\ returned = <<>>
    /\ crashes = 0
    /\ first_run = <<>>
    /\ at_crash = <<>>
    /\ saved_path = None
    /\ sleeps = [q \in AllIds |-> <<>>]
    /\ call = <<>>
    /\ UDIdle

\* runs over the whole dataset, or over a dataset file without questions
Init ==
    /\ questions \in {Dataset, <<>>}
    /\ client \in RunClients
    /\ resume \in BOOLEAN
    /\ checkpoint_file \in (IF resume THEN InitialFiles ELSE FreshFiles)
    /\ result_file = AbsentResultFile
    /\ InitProcess

\* runs over a dataset of one question, with every client behaviour
InitDispatch ==
    /\ \E q \in AllIds : questions = <<q>>
    /\ \E c \in DispatchClients : client = [q \in AllIds |-> c]
    /\ resume = TRUE
    /\ checkpoint_file \in {AbsentFile, WrittenFile(<<StoredOk(ForeignId)>>)}
    /\ result_file = AbsentResultFile
    /\ InitProcess

\* Result sink: save_results is handed the EvaluationResult of a completed run
\* over t questions of which e failed, beside no result file or the file of
\* an earlier good run of the model
MaxTotal == 100

SinkResults(t, e) == [i \in 1..t |-> IF i > t - e THEN StoredErr(i) ELSE StoredOk(i)]

HistoricalResultFile ==
    WrittenResultFile(to_dict(EvaluationResult([i \in 1..NumQuestions |-> StoredOk(i)])))

InitSink ==
    /\ phase = "returned"
    /\ \E t \in 0..MaxTotal : \E e \in 0..t :
          /\ questions = [i \in 1..t |-> i]
          /\ returned = <<EvaluationResult(SinkResults(t, e))>>
    /\ result_file \in {AbsentResultFile, HistoricalResultFile}
    /\ client = [q \in AllIds |-> Always(OkOutcome("B"))]
    /\ checkpoint_file = AbsentFile
    /\ resume = TRUE
    /\ completed_results = <<>>
    /\ all_results = <<>>
    /\ semaphore = 0
    /\ checkpoint_lock = FALSE
    /\ pc = [q \in AllIds |-> "none"]
    /\ attempt = [q \in AllIds |-> 0]
    /\ invocations = [q \in AllIds |-> 0]
    /\ result = [q \in AllIds |-> <<>>]
    /\ writes = 0
    /\ crashes = 0
    /\ first_run = <<>>
    /\ at_crash = <<>>
    /\ saved_path = None
    /\ sleeps = [q \in AllIds |-> <<>>]
    /\ call = <<>>
    /\ UDIdle

Next ==
    \/ StartRun
    \/ \E q \in AllIds : AcquireSemaphore(q)
    \/ \E q \in AllIds : Invoke(q)
    \/ \E q \in AllIds : Backoff(q)
    \/ \E q \in AllIds : AcquireLock(q)
    \/ \E q \in AllIds : AppendResult(q)
    \/ \E q \in AllIds : SaveOpen(q)
    \/ \E q \in AllIds : SaveDump(q)
    \/ \E q \in AllIds : Release(q)
    \/ Gather
    \/ Finish
    \/ Crash
    \/ \E q \in AllIds : AbortOnSaveError(q)
    \/ SaveResults
    \/ Recalculate

SinkNext ==
    \/ SaveResults
    \/ Recalculate

\* validate_mcq, validate_short_text, normalize and parse_response called on
\* their own, one call per behaviour
MaxSteps == 2

StepNames == KnownSteps \cup {"collapse_whitespace"}

StepLists == UNION {[1..n -> StepNames] : n \in 0..MaxSteps}

Texts == {"", " ", "pes", "Pes", "  Pes ", "pes  a  macka", "pes!", "5 kusov", "e-mail", "\tB\n"}

AcceptedLists == {<<>>, <<"pes">>, <<"pes nicka", "PES A MACKA">>, <<"5", "pat">>, <<"pes!", " Pes">>}

McqAnswers == {"", " ", "b", "B", " b ", "C is correct", "bd", "x", "AB", "\nd\n"}

CorrectOptions == {"A", "B", "C", "D", "b", "c", ""}

Responses ==
    {"", "  ", "B", "b", " c ", "the answer is c", "xyz", "1) d", "Odpoved: B", "\nB\n", "  Pes "}

CallValidateMcq ==
    /\ call = <<>>
    /\ \E answer \in McqAnswers, correct \in CorrectOptions :
          call' = <<[fn |-> "validate_mcq", args |-> <<answer, correct>>,
                     out |-> validate_mcq(answer, correct)]>>
    /\ UNCHANGED <<phase, questions, client, checkpoint_file, completed_results, all_results,
                   semaphore, checkpoint_lock, pc, attempt, invocations, result, writes,
                   returned, resume, crashes, first_run, at_crash, result_file, saved_path,
                   sleeps, ud_vars>>

CallValidateShortText ==
    /\ call = <<>>
    /\ \E answer \in Texts, accepted \in AcceptedLists, steps \in StepLists :
          call' = <<[fn |-> "validate_short_text", args |-> <<answer, accepted, steps>>,
                     out |-> validate_short_text(answer, accepted, steps)]>>
    /\ UNCHANGED <<phase, questions, client, checkpoint_file, completed_results, all_results,
                   semaphore, checkpoint_lock, pc, attempt, invocations, result, writes,
                   returned, resume, crashes, first_run, at_crash, result_file, saved_path,
                   sleeps, ud_vars>>

CallNormalize ==
    /\ call = <<>>
    /\ \E text \in Texts, steps \in StepLists :
          call' = <<[fn |-> "normalize", args |-> <<text, steps>>,
                     out |-> normalize(text, steps)]>>
    /\ UNCHANGED <<phase, questions, client, checkpoint_file, completed_results, all_results,
                   semaphore, checkpoint_lock, pc, attempt, invocations, result, writes,
                   returned, resume, crashes, first_run, at_crash, result_file, saved_path,
                   sleeps, ud_vars>>

CallParseResponse ==
    /\ call = <<>>
    /\ \E response \in Responses, task_type \in {"mcq", "short_text"} :
          call' = <<[fn |-> "parse_response", args |-> <<response, task_type>>,
                     out |-> parse_response(response, task_type)]>>
    /\ UNCHANGED <<phase, questions, client, checkpoint_file, completed_results, all_results,
                   semaphore, checkpoint_lock, pc, attempt, invocations, result, writes,
                   returned, resume, crashes, first_run, at_crash, result_file, saved_path,
                   sleeps, ud_vars>>

\* s.split("/")[-1]
RECURSIVE LastSegment(_)
LastSegment(s) ==
    IF Contains("/", s) THEN LastSegment(Tail(s)) ELSE s

\* the index of the last "." of name, 0 if there is none
RECURSIVE LastDot(_)
LastDot(name) ==
    IF name = "" THEN 0
    ELSE IF Char(name, Len(name)) = "." THEN Len(name)
    ELSE LastDot(SubSeq(name, 1, Len(name) - 1))

\* Path(dataset_path).stem: the final component without its last suffix
Stem(path) ==
    LET name == LastSegment(path)
        i == LastDot(name)
    IN IF 1 < i /\ i < Len(name) THEN SubSeq(name, 1, i - 1) ELSE name

\* CheckpointManager.__init__: the file name under CHECKPOINT_DIR
checkpoint_path(model_name, dataset_path) ==
    "data/checkpoints/" \o LastSegment(model_name) \o "_" \o Stem(dataset_path) \o ".json"

ModelNames ==
    {"openai/gpt-4o", "azure/gpt-4o", "gpt-4o", "qwen/qwen3-32b", "x-ai/grok", "x-ai/grok_test"}

DatasetPaths ==
    {"data/processed/exam/2024.json", "data/processed/exam/2025.json",
     "data/processed/exam/test_2025.json", "data/archive/2024.json", "2024.json"}

\* two CheckpointManagers built for two runs
CallCheckpointPath ==
    /\ call = <<>>
    /\ \E m1 \in ModelNames, d1 \in DatasetPaths, m2 \in ModelNames, d2 \in DatasetPaths :
          call' = <<[fn |-> "checkpoint_path", args |-> <<m1, d1, m2, d2>>,
                     out |-> <<checkpoint_path(m1, d1), checkpoint_path(m2, d2)>>]>>
    /\ UNCHANGED <<phase, questions, client, checkpoint_file, completed_results, all_results,
                   semaphore, checkpoint_lock, pc, attempt, invocations, result, writes,
                   returned, resume, crashes, first_run, at_crash, result_file, saved_path,
                   sleeps, ud_vars>>

InitCalls ==
    /\ questions = <<>>
    /\ client = [q \in AllIds |-> Always(OkOutcome("B"))]
    /\ resume = TRUE
    /\ checkpoint_file = AbsentFile
    /\ result_file = AbsentResultFile
    /\ InitProcess

CallsNext ==
    \/ CallValidateMcq
    \/ CallValidateShortText
    \/ CallNormalize
    \/ CallParseResponse
    \/ CallCheckpointPath

-----------------------------------------------------------------------------
(* The retry and reevaluate commands of main.py: each writes a checkpoint    *)
(* made of entries of the model's result file, calls run with resume=True    *)
(* and writes what run returns back to the result file.                      *)

\* a seed that keeps no result
good_results_none(results) == <<>>

\* retry: [r for r in data.get("results", []) if not r.get("error")]
good_results(results) == SelectSeq(results, LAMBDA r : ~Truthy(Get(r, "error", None)))

\* reevaluate: [r for r in current_results if r["question_id"] != question]
filtered_results(results, question) == SelectSeq(results, LAMBDA r : r.question_id # question)

\* the checkpoint file the command writes: json.dump of checkpoint_data
SeededCheckpoint(results) == [exists |-> TRUE, valid |-> TRUE, results |-> results]

\* retry: the error count a result file is selected by
RetryErrorCount(data) ==
    IF Get(data, "error_count", 0) = 0
    THEN Cardinality({i \in 1..Len(data.results) : Truthy(Get(data.results[i], "error", None))})
    ELSE data.error_count

\* retry, for one model with errors, up to the call of run
SeedRetry ==
    /\ phase = "stored"
    /\ result_file.exists
    /\ RetryErrorCount(result_file.data[1]) > 0
    /\ checkpoint_file' = SeededCheckpoint(good_results(result_file.data[1].results))
    /\ resume' = TRUE
    /\ phase' = "idle"
    /\ UNCHANGED <<questions, client, completed_results, all_results, semaphore,
                   checkpoint_lock, pc, attempt, invocations, result, writes, returned,
                   crashes, first_run, at_crash, result_file, saved_path, sleeps, call, ud_vars>>

\* reevaluate of one question, for one model, up to the call of run
SeedReevaluate(question) ==
    /\ phase = "stored"
    /\ result_file.exists
    /\ checkpoint_file' =
          SeededCheckpoint(filtered_results(result_file.data[1].results, question))
    /\ resume' = TRUE
    /\ phase' = "idle"
    /\ UNCHANGED <<questions, client, completed_results, all_results, semaphore,
                   checkpoint_lock, pc, attempt, invocations, result, writes, returned,
                   crashes, first_run, at_crash, result_file, saved_path, sleeps, call, ud_vars>>

\* list.sort(key=get_id): a stable sort by int(question_id)
RECURSIVE SortInsert(_, _)
SortInsert(sorted, r) ==
    IF sorted = <<>> THEN <<r>>
    ELSE IF sorted[Len(sorted)].question_id <= r.question_id THEN Append(sorted, r)
    ELSE Append(SortInsert(SubSeq(sorted, 1, Len(sorted) - 1), r), sorted[Len(sorted)])

RECURSIVE SortById(_)
SortById(results) ==
    IF results = <<>> THEN <<>>
    ELSE SortInsert(SortById(SubSeq(results, 1, Len(results) - 1)), results[Len(results)])

\* new_result.results.sort(key=get_id); json.dump(new_result.to_dict(), fp)
SortAndWrite ==
    /\ phase = "returned"
    /\ result_file' =
          WrittenResultFile(to_dict([returned[1] EXCEPT !.results = SortById(@)]))
    /\ phase' = "rewritten"
    /\ UNCHANGED <<questions, client, checkpoint_file, completed_results, all_results,
                   semaphore, checkpoint_lock, pc, attempt, invocations, result, writes,
                   returned, resume, crashes, first_run, at_crash, saved_path, sleeps, call, ud_vars>>

\* the result file of a run in which the call for question 2 failed and the
\* others were answered
PartlyFailedResultFile ==
    WrittenResultFile(to_dict(EvaluationResult(
        [i \in 1..NumQuestions |-> IF i = 2 THEN StoredErr(i) ELSE StoredOk(i)])))

\* the result file of a run in which only the call for question 1 was answered
FailedResultFile ==
    WrittenResultFile(to_dict(EvaluationResult(
        [i \in 1..NumQuestions |-> IF i >= 2 THEN StoredErr(i) ELSE StoredOk(i)])))

\* a retry or reevaluate command starts beside the result file of an earlier
\* command over the dataset
InitFlow ==
    /\ phase = "stored"
    /\ questions = Dataset
    /\ client \in RunClients
    /\ result_file \in {HistoricalResultFile, PartlyFailedResultFile, FailedResultFile}
    /\ checkpoint_file = AbsentFile
    /\ resume = TRUE
    /\ completed_results = <<>>
    /\ all_results = <<>>
    /\ semaphore = 0
    /\ checkpoint_lock = FALSE
    /\ pc = [q \in AllIds |-> "none"]
    /\ attempt = [q \in AllIds |-> 0]
    /\ invocations = [q \in AllIds |-> 0]
    /\ result = [q \in AllIds |-> <<>>]
    /\ writes = 0
    /\ returned = <<>>
    /\ crashes = 0
    /\ first_run = <<>>
    /\ at_crash = <<>>
    /\ saved_path = Some(OutputPath)
    /\ sleeps = [q \in AllIds |-> <<>>]
    /\ call = <<>>
    /\ UDIdle

\* a step of the running process: of one of its tasks, or of run after gather
RunStep ==
    \/ \E q \in AllIds : AcquireSemaphore(q)
    \/ \E q \in AllIds : Invoke(q)
    \/ \E q \in AllIds : Backoff(q)
    \/ \E q \in AllIds : AcquireLock(q)
    \/ \E q \in AllIds : AppendResult(q)
    \/ \E q \in AllIds : SaveOpen(q)
    \/ \E q \in AllIds : SaveDump(q)
    \/ \E q \in AllIds : Release(q)
    \/ Gather
    \/ Finish

\* runs over the whole dataset that resume from nothing or from a checkpoint
\* holding one failed and one answered question
InitLive ==
    /\ questions = Dataset
    /\ client \in RunClients
    /\ resume = TRUE
    /\ checkpoint_file \in {AbsentFile, WrittenFile(<<StoredErr(2), StoredOk(1)>>)}
    /\ result_file = AbsentResultFile
    /\ InitProcess

FlowNext ==
    \/ SeedRetry
    \/ \E question \in AllIds : SeedReevaluate(question)
    \/ StartRun
    \/ RunStep
    \/ SortAndWrite

Spec == Init /\ [][Next]_vars

FlowSpec == InitFlow /\ [][FlowNext]_vars

UDSpec == InitUD /\ [][UDNext]_vars

\* The event loop runs a task that is ready, every ainvoke under wait_for
\* ends within the timeout and every sleep ends: a process that can take a
\* step eventually takes one.  Kills and failed writes are under no fairness.
LiveSpec == InitLive /\ [][Next]_vars /\ WF_vars(RunStep)

CallsSpec == InitCalls /\ [][CallsNext]_vars

DispatchSpec == InitDispatch /\ [][Next]_vars

SinkSpec == InitSink /\ [][SinkNext]_vars

-----------------------------------------------------------------------------
(* Properties *)

InProcess == phase \in {"running", "gathered"}

\* inside `async with semaphore`
InSemaphore(q) == pc[q] \in {"call", "sleep", "lock", "append", "open", "dump", "unlock"}

\* inside `async with checkpoint_lock`
InLock(q) == pc[q] \in {"append", "open", "dump", "unlock"}

\* save() of the task has completed
Saved(q) == pc[q] \in {"unlock", "done"}

Values(seq) == {seq[i] : i \in 1..Len(seq)}

Ids(results) == [i \in 1..Len(results) |-> results[i].question_id]

Distinct(seq) == \A i, j \in 1..Len(seq) : i # j => seq[i] # seq[j]

\* C1: while a run is dispatching, at most Concurrency questions are between
\* acquiring and releasing the semaphore (awaiting the model, sleeping in
\* backoff, waiting for the lock or writing the checkpoint), the semaphore
\* counts exactly the free slots, and every other pending question is still
\* waiting for a slot or done.
C1_AtMostKInFlight ==
    phase = "running" =>
        /\ Cardinality({q \in AllIds : InSemaphore(q)}) <= Concurrency
        /\ semaphore = Concurrency - Cardinality({q \in AllIds : InSemaphore(q)})
        /\ \A q \in AllIds : ~InSemaphore(q) => pc[q] \in {"none", "sem", "done"}

C1_Witness ==
    /\ phase = "running"
    /\ Cardinality({q \in AllIds : InSemaphore(q)}) = Concurrency
    /\ \E q \in AllIds : pc[q] = "sleep"
    /\ \E q \in AllIds : pc[q] = "dump"
    /\ \E q \in AllIds : pc[q] = "sem"

\* C2: append + serialize + write is one unit under checkpoint_lock: at most
\* one task is inside it, the lock is held exactly while a task is inside, and
\* between a task's append and the end of its write no step of another task
\* changes the accumulator or the checkpoint file.
C2_AtomicAppendAndSave ==
    /\ [](/\ Cardinality({q \in AllIds : InLock(q)}) <= 1
          /\ checkpoint_lock <=> \E q \in AllIds : InLock(q))
    /\ [][\A q \in AllIds :
            (pc[q] \in {"open", "dump"} /\ pc'[q] = pc[q]) =>
                (all_results' = all_results /\ checkpoint_file' = checkpoint_file)]_vars

C2_Witness ==
    /\ phase = "running"
    /\ \E q \in AllIds : pc[q] = "dump"
    /\ \E q \in AllIds : pc[q] = "lock"

\* C3: one save per completed dispatch, each of the full result set: whenever
\* the lock is free after at least one save of the run, the file holds exactly
\* the accumulator, which is the loaded results followed by the results of the
\* finished dispatches, and the saves number the finished dispatches.
C3_SaveEveryDispatchFullSet ==
    (InProcess /\ ~checkpoint_lock /\ writes >= 1) =>
        /\ checkpoint_file.exists /\ checkpoint_file.valid
        /\ checkpoint_file.results = [i \in 1..Len(all_results) |-> ToJson(all_results[i])]
        /\ load(checkpoint_file) = all_results
        /\ SubSeq(all_results, 1, Len(completed_results)) = completed_results
        /\ Values(all_results) =
              Values(completed_results) \cup {result[q][1] : q \in {p \in AllIds : pc[p] = "done"}}
        /\ writes = Cardinality({q \in AllIds : pc[q] = "done"})
        /\ writes = Len(all_results) - Len(completed_results)

C3_Witness ==
    /\ phase = "running"
    /\ ~checkpoint_lock
    /\ writes >= 1
    /\ Len(completed_results) >= 1
    /\ \E q \in AllIds : pc[q] = "lock"

\* C4: after a kill, the results load() gives the next invocation hold every
\* result that was in the accumulator at the kill, except at most one.
C4_CrashLosesAtMostOne ==
    (phase = "idle" /\ crashes >= 1) =>
        Cardinality(Values(at_crash) \ Values(load(checkpoint_file))) <= 1

\* C5: in a run with resume=true a question whose id is a key of the loaded
\* checkpoint gets no task, no model call and no new result; every other
\* question of the dataset gets a task, and once the tasks are gathered has
\* exactly one result in the result list.
C5_ResumePartition ==
    (phase # "idle" /\ resume) =>
        /\ \A q \in AllIds \cap Keys(completed_results) :
              pc[q] = "none" /\ invocations[q] = 0 /\ result[q] = <<>>
        /\ \A q \in QuestionIds \ Keys(completed_results) : pc[q] # "none"
        /\ phase \in {"gathered", "returned"} =>
              \A q \in QuestionIds :
                 /\ Cardinality({i \in 1..Len(all_results) : all_results[i].question_id = q}) = 1
                 /\ q \notin Keys(completed_results) =>
                       (invocations[q] >= 1 /\ result[q] # <<>> /\ result[q][1] \in Values(all_results))

C5_Witness ==
    /\ phase = "returned"
    /\ resume
    /\ Keys(completed_results) \cap QuestionIds # {}
    /\ QuestionIds \ Keys(completed_results) # {}
    /\ writes >= 1

\* what one uninterrupted run over the dataset yields with the client in use
Uninterrupted == {evaluate_question(q, 0) : q \in QuestionIds}

\* the checkpoint file the first invocation found, if any, held only results
\* this client yields for questions of this dataset
StartedConsistent ==
    first_run # <<>> /\ Values(load(first_run[1].file)) \subseteq Uninterrupted

\* C6: with a deterministic client, a run that is killed at any step (with any
\* subset of its questions checkpointed, or in the middle of a write) and
\* invoked again with resume=true returns one result per question and the same
\* set of results as one uninterrupted run over the dataset; the checkpoint
\* file found by the first invocation, if any, is one this client produced for
\* this dataset.
C6_IdempotentResume ==
    (phase = "returned" /\ StartedConsistent /\ crashes >= 1) =>
        /\ Values(returned[1].results) = Uninterrupted
        /\ Len(returned[1].results) = Len(questions)

C6_Witness ==
    /\ phase = "returned"
    /\ StartedConsistent
    /\ crashes >= 1
    /\ Len(completed_results) >= 1
    /\ writes >= 1
    /\ \E r \in Values(completed_results) : r.raw_response # ""

\* C7: whenever run returns, it returns as many results as the dataset has
\* questions, with unique question ids that are all ids of the dataset.
C7_ResultsMatchDataset ==
    phase = "returned" =>
        /\ Len(returned[1].results) = Len(questions)
        /\ Distinct(Ids(returned[1].results))
        /\ Values(Ids(returned[1].results)) \subseteq QuestionIds

\* C8: in a run that loaded C results, once N dispatches have finished their
\* save the file has been written N times, and whenever no write is under way
\* after the first one the file holds exactly C + N results with no question
\* id twice.
C8_CheckpointCount ==
    InProcess =>
        LET N == Cardinality({q \in AllIds : Saved(q)})
            C == Len(completed_results)
        IN /\ writes = N
           /\ (writes >= 1 /\ \A q \in AllIds : pc[q] # "dump") =>
                 /\ checkpoint_file.valid
                 /\ Len(checkpoint_file.results) = C + N
                 /\ Distinct(Ids(checkpoint_file.results))

C8_Witness ==
    /\ InProcess
    /\ Len(completed_results) >= 1
    /\ Cardinality({q \in AllIds : Saved(q)}) >= 2
    /\ Len(checkpoint_file.results) = Len(completed_results) + 2

\* every invocation of the client for q raises an error whose message contains "429"
Always429(q) ==
    \A a \in 0..max_retries :
        ClientOutcome(q, a).kind = "error" /\ Contains("429", ErrStr(ClientOutcome(q, a)))

\* C9: no question is sent to the client more than 4 times, and a question
\* whose every invocation raises a "429" error is sent exactly 4 times before
\* its result, which carries a non-empty error.
C9_RetryCeiling ==
    \A q \in AllIds :
        /\ invocations[q] <= 4
        /\ (Always429(q) /\ result[q] # <<>>) =>
              (invocations[q] = 4 /\ Truthy(result[q][1].error) /\ ~result[q][1].is_correct)
        /\ (Always429(q) /\ pc[q] \in {"call", "sleep"}) => result[q] = <<>>

C9_Witness ==
    \E q \in AllIds : Always429(q) /\ pc[q] = "done" /\ invocations[q] = 4

\* the failures the retry policy is said to cover
ClaimedRetryable(err_str) ==
    \/ Contains("429", err_str)
    \/ Contains("500", err_str)
    \/ Contains("502", err_str)
    \/ Contains("503", err_str)
    \/ Contains("rate limit", Lower(err_str))

\* C10: a question's retry loop ends on a failed call whose message contains
\* 429, 500, 502, 503 or "rate limit" only when 3 retries have been made.
C10_RetryableCodesRetried ==
    \A q \in AllIds :
        LET out == ClientOutcome(q, attempt[q]) IN
        (result[q] # <<>> /\ out.kind = "error" /\ ClaimedRetryable(ErrStr(out))) =>
            attempt[q] = max_retries

\* the failures the error taxonomy calls connection errors
ConnectionError(err_str) ==
    /\ Contains("Connection", err_str) \/ Contains("connection", err_str)
    /\ ~ClaimedRetryable(err_str)

\* C11: a question's retry loop ends on a failed call whose message names a
\* connection error (and no 429/5xx code, no "rate limit") only when 3
\* retries have been made.
C11_ConnectionErrorsRetried ==
    \A q \in AllIds :
        LET out == ClientOutcome(q, attempt[q]) IN
        (result[q] # <<>> /\ out.kind = "error" /\ ConnectionError(ErrStr(out))) =>
            attempt[q] = max_retries

\* a failure that is in none of the retryable classes
NonRetryable(out) ==
    /\ out.kind = "error"
    /\ ~ClaimedRetryable(ErrStr(out))
    /\ ~ConnectionError(ErrStr(out))

\* C12: a failed call that is not retryable ends the question's attempts where
\* it occurs: the task never sleeps after it, its result is recorded with an
\* error and marked incorrect after exactly attempt + 1 invocations, and when
\* the first call fails so the client is invoked once and no backoff happened.
C12_NonRetryableEndsAttempts ==
    \A q \in AllIds :
        LET out == ClientOutcome(q, attempt[q]) IN
        (invocations[q] = attempt[q] + 1 /\ NonRetryable(out)) =>
            /\ pc[q] # "sleep"
            /\ result[q] # <<>>
            /\ Truthy(result[q][1].error)
            /\ ~result[q][1].is_correct
            /\ NonRetryable(ClientOutcome(q, 0)) => (invocations[q] = 1 /\ attempt[q] = 0)

C12_Witness ==
    \E q \in AllIds :
        /\ pc[q] = "done"
        /\ NonRetryable(ClientOutcome(q, 0))
        /\ invocations[q] = 1
        /\ Truthy(result[q][1].error)

\* the call of question q at its current attempt has been made and timed out
TimedOut(q) ==
    invocations[q] = attempt[q] + 1 /\ ClientOutcome(q, attempt[q]).kind = "timeout"

\* C13: a call that exceeds the timeout, on the first attempt or after
\* retries, ends the question's attempts (no sleep, no further call) with a
\* result whose error is "Timeout after 300s", marked incorrect, of cost 0 and
\* with an empty raw response; the other questions are still evaluated, so
\* the gathered run holds a result for every pending question.
C13_TimeoutEndsAttempts ==
    /\ \A q \in AllIds :
          TimedOut(q) =>
              /\ pc[q] \notin {"call", "sleep"}
              /\ result[q] # <<>>
              /\ result[q][1].error = <<"Timeout after 300s">>
              /\ ~result[q][1].is_correct
              /\ result[q][1].cost_usd = 0
              /\ result[q][1].raw_response = ""
    /\ (phase \notin {"idle", "running"} /\ \E q \in AllIds : TimedOut(q)) =>
          \A p \in QuestionIds \ Keys(completed_results) :
              pc[p] = "done" /\ result[p][1] \in Values(all_results)

C13_Witness ==
    /\ phase = "returned"
    /\ \E q \in AllIds : TimedOut(q) /\ attempt[q] = 0
    /\ \E q \in AllIds : TimedOut(q) /\ attempt[q] = 1
    /\ \E q \in AllIds : pc[q] = "done" /\ ~TimedOut(q)

\* in a result set, an entry with an error is not marked correct
ErrorImpliesIncorrect(results) ==
    \A i \in 1..Len(results) : Truthy(Get(results[i], "error", None)) => ~results[i].is_correct

\* C14: error set implies is_correct = false in every result a dispatch
\* returned and in every result set held by the accumulator, the checkpoint
\* file and the result file.
C14_ErroredNeverCorrect ==
    /\ \A q \in AllIds : ErrorImpliesIncorrect(result[q])
    /\ ErrorImpliesIncorrect(all_results)
    /\ ErrorImpliesIncorrect(checkpoint_file.results)
    /\ result_file.exists => ErrorImpliesIncorrect(result_file.data[1].results)

\* the call of question q at its current attempt has been made and failed for good
Unrecoverable(q) ==
    /\ invocations[q] = attempt[q] + 1
    /\ ClientOutcome(q, attempt[q]).kind # "ok"
    /\ pc[q] # "sleep"

\* C15: a question whose call fails for good (timeout, retries exhausted,
\* failure not retried) gets a result with an error and does not stop the
\* run: once run returns, every pending question has finished its task and its
\* result is in the returned list, and error_count is the number of loaded
\* results with an error plus the number of questions that failed in this run.
C15_FailureContained ==
    /\ \A q \in AllIds : Unrecoverable(q) => (result[q] # <<>> /\ Truthy(result[q][1].error))
    /\ phase \in {"returned", "saved", "recalculated"} =>
          /\ \A q \in QuestionIds \ Keys(completed_results) :
                pc[q] = "done" /\ result[q][1] \in Values(returned[1].results)
          /\ returned[1].error_count =
                Cardinality({i \in 1..Len(completed_results) : completed_results[i].error # None})
                + Cardinality({q \in AllIds : pc[q] = "done" /\ result[q][1].error # None})

C15_Witness ==
    /\ phase = "returned"
    /\ \E q \in AllIds : Unrecoverable(q) /\ attempt[q] = max_retries
    /\ \E q \in AllIds : Unrecoverable(q) /\ attempt[q] = 0
    /\ returned[1].error_count = NumQuestions
    /\ Len(returned[1].results) = NumQuestions

\* C16: save_results returns None exactly when error_count / total_questions
\* exceeds 1/5, and otherwise returns the path of a file holding the result:
\* 21 errors of 100 are refused, 20 of 100 are written, and every result with
\* 5 * error_count <= total_questions is written.
C16_ErrorRateGate ==
    phase = "saved" =>
        LET res == returned[1]
            written == /\ saved_path = Some(OutputPath)
                       /\ result_file = WrittenResultFile(to_dict(res))
        IN /\ saved_path = None <=>
                 (res.total_questions > 0 /\ 5 * res.error_count > res.total_questions)
           /\ (res.total_questions = 100 /\ res.error_count = 21) => saved_path = None
           /\ (res.total_questions = 100 /\ res.error_count = 20) => written
           /\ 5 * res.error_count <= res.total_questions => written

C16_Witness ==
    /\ phase = "saved"
    /\ returned[1].total_questions = 100
    /\ returned[1].error_count = 20
    /\ saved_path # None
    /\ result_file.data[1].error_count = 20

\* C17: a call of save_results that returns None leaves the result file as it
\* was: absent if it was absent, with its earlier content if it existed.
C17_RefusalWritesNothing ==
    [][(phase = "returned" /\ phase' = "saved" /\ saved_path' = None) =>
          result_file' = result_file]_vars

C17_Witness ==
    /\ phase = "saved"
    /\ saved_path = None
    /\ returned[1].error_count >= 1
    /\ result_file = HistoricalResultFile

\* C18: when run has returned a result whose error rate exceeds 0.20, the
\* checkpoint file is still on disk.
C18_CheckpointKeptOnHighErrorRate ==
    (phase = "returned" /\ ErrorRateTooHigh(returned[1])) => checkpoint_file.exists

\* C19: once run has returned, whatever its error count, no checkpoint file
\* exists and the caller holds an EvaluationResult with the whole accumulator,
\* which has a result for every question of the dataset; this stays so when
\* save_results refuses the result.
C19_DeleteAndReturnRegardless ==
    phase \in {"returned", "saved", "recalculated"} =>
        /\ ~checkpoint_file.exists
        /\ returned # <<>>
        /\ returned[1].results = all_results
        /\ returned[1].total_questions = Len(all_results)
        /\ QuestionIds \subseteq Values(Ids(returned[1].results))

C19_Witness ==
    /\ phase = "saved"
    /\ saved_path = None
    /\ ~checkpoint_file.exists
    /\ writes >= 1
    /\ returned[1].error_count >= 1

\* C20: when a run that has completed at least one save ends without
\* returning (a kill, or an exception out of checkpoint.save), the checkpoint
\* file is left on disk and load() on it gives every result saved so far; and
\* an invocation with resume=true starts from what load() gives.
C20_CheckpointSurvivesAbort ==
    [][/\ (InProcess /\ phase' = "idle" /\ writes >= 1) =>
             /\ checkpoint_file'.exists
             /\ \A q \in AllIds :
                   Saved(q) => result[q][1] \in Values(load(checkpoint_file'))
       /\ (phase = "idle" /\ phase' = "running" /\ resume) =>
             completed_results' = load(checkpoint_file)]_vars

\* question ids in ascending numeric order
SortedById(results) ==
    \A i, j \in 1..Len(results) : i < j => results[i].question_id <= results[j].question_id

\* C21: the result list of every result file written after a run is in
\* ascending order of question id.
C21_ResultFileSorted ==
    (phase = "saved" /\ saved_path # None) => SortedById(result_file.data[1].results)

\* the fractions a / b and c / d are one number
SameRatio(r, n, d) == r.num * d = n * r.den /\ r.den > 0 /\ d > 0

\* C22: the aggregates of a returned EvaluationResult are those of its result
\* list: total_questions is its length, correct_count the number of correct
\* results, error_count the number of results with an error, correct_count
\* is at most total_questions, and accuracy is correct_count /
\* total_questions, or 0.0 for an empty list.
C22_AggregatesDerived ==
    phase = "returned" =>
        LET res == returned[1]
            n == Len(res.results)
            correct == {i \in 1..n : res.results[i].is_correct = TRUE}
            errored == {i \in 1..n : res.results[i].error # None}
        IN /\ res.results = all_results
           /\ res.total_questions = n
           /\ res.correct_count = Cardinality(correct)
           /\ res.error_count = Cardinality(errored)
           /\ res.correct_count <= res.total_questions
           /\ n > 0 => SameRatio(res.accuracy, res.correct_count, res.total_questions)
           /\ n = 0 => res.accuracy = Zero

C22_Witness ==
    /\ phase = "returned"
    /\ returned[1].total_questions = NumQuestions
    /\ returned[1].correct_count >= 1
    /\ returned[1].correct_count < returned[1].total_questions
    /\ returned[1].error_count = 0

\* the dataset has a question of task type t
DatasetHasType(t) == \E q \in QuestionIds : QuestionOf(q).task_type = t

\* C23: in a returned EvaluationResult, mcq_accuracy is None exactly when the
\* dataset has no MCQ question and short_text_accuracy is None exactly when it
\* has no short-text question; a type whose questions were all wrong or
\* errored has accuracy 0.0.
C23_TypeAccuracyNoneIffNoQuestion ==
    phase = "returned" =>
        \A t \in {"mcq", "short_text"} :
            LET acc == IF t = "mcq" THEN returned[1].mcq_accuracy
                       ELSE returned[1].short_text_accuracy
            IN /\ acc = None <=> ~DatasetHasType(t)
               /\ (DatasetHasType(t) /\ TypeCorrect(returned[1].results, t) = 0) =>
                     (acc # None /\ acc[1].num = 0)

RECURSIVE SumSeq(_)
SumSeq(seq) == IF seq = <<>> THEN 0 ELSE Head(seq) + SumSeq(Tail(seq))

\* milliseconds from the start of the first call of question q to the end of
\* its call at the current attempt: every call made and every sleep between
ElapsedMs(q) ==
    SumSeq([i \in 1..(attempt[q] + 1) |-> ClientOutcome(q, i - 1).ms]) + 1000 * SumSeq(sleeps[q])

\* C24: latency_ms of a question's result is the time from the start of its
\* first call to the end of its last one, failed calls and backoff sleeps
\* included.
C24_LatencyCoversRetries ==
    \A q \in AllIds : result[q] # <<>> => result[q][1].latency_ms = ElapsedMs(q)

\* C25: the sleeps of a question's retry loop are 1 s, 2 s, 4 s in this
\* order, one after each failed attempt that is retried; a task sleeps only
\* after a failed call that is neither a timeout nor a non-retryable failure,
\* and never after its fourth call.
C25_ExponentialBackoff ==
    \A q \in AllIds :
        /\ Len(sleeps[q]) = attempt[q]
        /\ Len(sleeps[q]) <= 3
        /\ sleeps[q] = SubSeq(<<1, 2, 4>>, 1, Len(sleeps[q]))
        /\ pc[q] = "sleep" =>
              /\ invocations[q] <= 3
              /\ ClientOutcome(q, attempt[q]).kind = "error"
              /\ ~NonRetryable(ClientOutcome(q, attempt[q]))
        /\ result[q] # <<>> => Len(sleeps[q]) = invocations[q] - 1

C25_Witness ==
    \E q \in AllIds : pc[q] = "done" /\ sleeps[q] = <<1, 2, 4>> /\ invocations[q] = 4

\* a call of function fn has been made
Called(fn) == call # <<>> /\ call[1].fn = fn

\* C26: validate_mcq(answer, correct) is true exactly when the trimmed answer
\* is not empty and its first character, uppercased, is correct uppercased;
\* "b" matches "B", "C is correct" does not match "B", and an empty answer
\* matches nothing.
C26_McqFirstLetter ==
    Called("validate_mcq") =>
        LET answer == call[1].args[1]
            correct == call[1].args[2]
            trimmed == Strip(answer)
        IN /\ call[1].out <=>
                 (trimmed # "" /\ UpperChar(Char(trimmed, 1)) = Upper(correct))
           /\ (answer = "b" /\ correct = "B") => call[1].out
           /\ (answer = "C is correct" /\ correct = "B") => ~call[1].out
           /\ trimmed = "" => ~call[1].out

\* C27: validate_short_text(answer, accepted, steps) is true exactly when the
\* steps applied in order to the answer give the very string they give for
\* some accepted form; never with no accepted form; and with no steps exactly
\* when the answer is one of the accepted strings as written.
C27_ShortTextExactMatch ==
    Called("validate_short_text") =>
        LET answer == call[1].args[1]
            accepted == call[1].args[2]
            steps == call[1].args[3]
        IN /\ call[1].out <=>
                 normalize(answer, steps) \in {normalize(a, steps) : a \in Values(accepted)}
           /\ accepted = <<>> => ~call[1].out
           /\ steps = <<>> => (call[1].out <=> answer \in Values(accepted))
           /\ (answer = "  Pes " /\ accepted = <<"pes">>) =>
                 /\ steps = <<"trim", "casefold">> => call[1].out
                 /\ steps = <<>> => ~call[1].out

C27_Witness ==
    /\ Called("validate_short_text")
    /\ call[1].args = <<"pes", <<"pes nicka", "PES A MACKA">>, <<"trim", "casefold">>>>
    /\ ~call[1].out

\* C28: a step normalize does not know changes nothing and stops nothing:
\* the result is that of the known steps of the list, applied in order.
C28_UnknownStepIgnored ==
    Called("normalize") =>
        LET text == call[1].args[1]
            steps == call[1].args[2]
        IN call[1].out = normalize(text, SelectSeq(steps, LAMBDA step : step \in KnownSteps))

C28_Witness ==
    /\ Called("normalize")
    /\ call[1].args = <<"  Pes ", <<"collapse_whitespace", "trim">>>>
    /\ call[1].out = "Pes"

\* C29: for an MCQ, parse_response returns, uppercased, the first character
\* of the trimmed response that is a, b, c or d in either case, else the
\* first character of the trimmed response uppercased, else ""; for a
\* short-text question it returns the trimmed response.
C29_ParseResponse ==
    Called("parse_response") =>
        LET trimmed == Strip(call[1].args[1])
            letters == {i \in 1..Len(trimmed) :
                           UpperChar(Char(trimmed, i)) \in {"A", "B", "C", "D"}}
            first == CHOOSE i \in letters : \A j \in letters : i <= j
        IN IF call[1].args[2] = "mcq"
           THEN call[1].out = (IF letters # {} THEN UpperChar(Char(trimmed, first))
                               ELSE IF trimmed # "" THEN UpperChar(Char(trimmed, 1))
                               ELSE "")
           ELSE call[1].out = trimmed

C29_Witness ==
    /\ Called("parse_response")
    /\ call[1].args = <<"1) d", "mcq">>
    /\ call[1].out = "D"

\* load() cannot read the file: absent, not parsable, or an entry lacks a key
Unreadable(file) ==
    \/ ~file.exists
    \/ ~file.valid
    \/ \E i \in 1..Len(file.results) :
          {"question_id", "task_type", "model_answer", "correct_answer", "is_correct"}
              \ DOMAIN file.results[i] # {}

\* C30: the start of a run leaves the checkpoint file as it is, and with
\* resume=true on a file that is absent, unparsable or holds an incomplete
\* entry it loads nothing and makes every question of the dataset pending.
C30_LoadNeverFatal ==
    [][(phase = "idle" /\ phase' = "running") =>
          /\ checkpoint_file' = checkpoint_file
          /\ (resume /\ Unreadable(checkpoint_file)) =>
                /\ completed_results' = <<>>
                /\ all_results' = <<>>
                /\ \A q \in QuestionIds : pc'[q] = "sem"]_vars

C30_Witness ==
    /\ phase = "returned"
    /\ crashes = 0
    /\ first_run[1].resume
    /\ first_run[1].file = IncompleteEntryFile
    /\ completed_results = <<>>
    /\ Len(returned[1].results) = NumQuestions

\* the questions dispatched by the current invocation
Dispatched == {q \in AllIds : pc[q] # "none"}

\* the number of entries of `results` for question q
Appended(results, q) == Cardinality({i \in 1..Len(results) : results[i].question_id = q})

\* run has returned with one result per dispatched question and nothing held
Terminated ==
    /\ phase = "returned"
    /\ \A q \in Dispatched : pc[q] = "done" /\ Appended(all_results, q) = 1
    /\ semaphore = Concurrency
    /\ ~checkpoint_lock

\* C31: when every model call ends (it returns, raises or times out) and a
\* task that can run is eventually run, an invocation of run that is not
\* killed returns: every question it dispatched has exactly one result in
\* all_results, and the semaphore and the checkpoint lock are free.  No task
\* waits forever for a slot or for the lock: a task holds the lock only
\* while it holds a slot, at most one task holds the lock, and never does
\* every task wait while none can move.
C31_RunTerminates ==
    /\ [](\A q \in AllIds : InLock(q) => InSemaphore(q))
    /\ [](Cardinality({q \in AllIds : InLock(q)}) <= 1)
    /\ [](phase = "running" => (ENABLED RunStep))
    /\ (phase = "running") ~> (phase = "idle" \/ Terminated)

\* a run of three questions on two slots, with retried failures, has returned
C31_Witness ==
    /\ Terminated
    /\ Dispatched = AllIds
    /\ crashes = 0
    /\ \E q \in AllIds : Len(sleeps[q]) > 0

\* the question ids of the results a checkpoint file holds
FileIds(file) ==
    IF file.exists /\ file.valid
    THEN {file.results[i].question_id : i \in 1..Len(file.results)}
    ELSE {}

\* C32: during a run with resume=true, from its load to its delete, no step
\* takes a question id out of the checkpoint file, and a completed save
\* leaves the file with the loaded results and one result per save so far.
C32_CheckpointNeverShrinks ==
    [][(resume /\ phase = "running" /\ phase' = "running")
         => /\ FileIds(checkpoint_file) \subseteq FileIds(checkpoint_file')
            /\ (writes' = writes + 1
                  => /\ checkpoint_file'.valid
                     /\ Len(checkpoint_file'.results) = Len(completed_results) + writes')]_vars

\* the file the first invocation found is one load() reads
Readable(file) ==
    /\ file.exists
    /\ file.valid
    /\ \A i \in 1..Len(file.results) : Complete(file.results[i])

\* C33: in a run with resume=true every result of the checkpoint it loaded,
\* with an error or without, counts as completed: its question is not
\* dispatched and the model is not called for it, the result stands
\* unchanged in all_results and in the results run returns, and
\* error_count counts the loaded results with an error together with the
\* new ones.
C33_ErroredCheckpointEntryCompleted ==
    (resume /\ (InProcess \/ phase = "returned")) =>
        /\ (crashes = 0 /\ first_run # <<>> /\ Readable(first_run[1].file))
              => \A j \in 1..Len(first_run[1].file.results) :
                    \E i \in 1..Len(completed_results) :
                        completed_results[i] = FromJson(first_run[1].file.results[j])
        /\ \A i \in 1..Len(completed_results) :
              /\ Len(all_results) >= i
              /\ all_results[i] = completed_results[i]
              /\ completed_results[i].question_id \in AllIds
                    => /\ pc[completed_results[i].question_id] = "none"
                       /\ invocations[completed_results[i].question_id] = 0
        /\ phase = "returned"
              => /\ returned[1].results = all_results
                 /\ returned[1].error_count =
                       ErrorCount(completed_results)
                       + Cardinality({q \in AllIds : pc[q] = "done" /\ Truthy(result[q][1].error)})

\* a run has returned that resumed from a checkpoint holding a failed result
\* of question 2: it dispatched the other questions only
C33_Witness ==
    /\ phase = "returned"
    /\ resume
    /\ crashes = 0
    /\ \E i \in 1..Len(completed_results) :
          /\ completed_results[i].question_id = 2
          /\ Truthy(completed_results[i].error)
          /\ returned[1].results[i] = StoredErr(2)
    /\ pc[2] = "none"
    /\ pc[3] = "done"
    /\ returned[1].error_count >= 1

\* C34: no command writes a result whose error_count / total_questions is
\* above 0.20 over a result file that exists: the retry and reevaluate
\* commands refuse it as save_results does.
C34_EveryWriteGuarded ==
    [][(result_file.exists /\ result_file' # result_file)
          => ~ErrorRateTooHigh(result_file'.data[1])]_vars

\* the entries of a result file with an error
ErroredIds(results) ==
    {results[i].question_id : i \in {j \in 1..Len(results) : Truthy(Get(results[j], "error", None))}}

\* the run that has returned was started on the checkpoint retry makes of `results`
RetrySeeded(results) ==
    /\ first_run # <<>>
    /\ first_run[1].resume
    /\ first_run[1].file = SeededCheckpoint(good_results(results))

\* C35: when retry writes a result file back, the run it made dispatched
\* exactly the questions whose stored result had an error, every stored
\* result without an error is in the new file with the model_answer and
\* is_correct it had, and the model was not called for its question.
C35_RetryRerunsErroredOnly ==
    [][(phase = "returned" /\ phase' = "rewritten" /\ RetrySeeded(result_file.data[1].results))
          => LET old == result_file.data[1].results
                 new == result_file'.data[1].results
             IN /\ \A q \in AllIds : (pc[q] # "none") <=> (q \in ErroredIds(old))
                /\ \A i \in 1..Len(old) :
                      ~Truthy(Get(old[i], "error", None))
                         => /\ invocations[old[i].question_id] = 0
                            /\ \E j \in 1..Len(new) :
                                  /\ new[j].question_id = old[i].question_id
                                  /\ new[j].model_answer = old[i].model_answer
                                  /\ new[j].is_correct = old[i].is_correct]_vars

\* retry has rewritten a file that held failed results of questions 2 and 3:
\* both were dispatched, question 2 now has an answer, question 1 was left alone
C35_Witness ==
    /\ phase = "rewritten"
    /\ first_run # <<>>
    /\ Len(first_run[1].file.results) = NumQuestions - 2
    /\ pc[1] = "none"
    /\ pc[2] = "done"
    /\ pc[3] = "done"
    /\ 2 \notin ErroredIds(result_file.data[1].results)
    /\ \E j \in 1..Len(result_file.data[1].results) :
          result_file.data[1].results[j] = ResultToDict(StoredOk(1))

\* C36: two runs whose (model identifier, dataset path) pairs differ use
\* different checkpoint files, and two runs of the same pair use the same one.
C36_CheckpointKeyUnique ==
    Called("checkpoint_path") =>
        LET a == call[1].args IN
        (<<a[1], a[2]>> = <<a[3], a[4]>>) <=> (call[1].out[1] = call[1].out[2])

\* two Optional[float] values are the same: both None, or equal quotients
SameOptionalRatio(a, b) ==
    IF a = None \/ b = None THEN a = b
    ELSE a[1].num * b[1].den = b[1].num * a[1].den

\* C37: the document recalculate writes carries the aggregates run would
\* compute from its result list: correct_count, accuracy, and for each type
\* the correct results of the type over all results of the type, those with
\* an error included; and is_correct of every result of a dataset question
\* is the validator's verdict on its stored model_answer.
C37_RecalculateMatchesRunner ==
    [][(phase = "saved" /\ phase' = "recalculated" /\ result_file' # result_file)
          => LET d == result_file'.data[1] IN
             /\ d.total_questions = Len(d.results)
             /\ d.correct_count = CorrectCount(d.results)
             /\ SameOptionalRatio(Some(d.accuracy), Some(Accuracy(d.results)))
             /\ SameOptionalRatio(d.mcq_accuracy, TypeAccuracy(d.results, "mcq"))
             /\ SameOptionalRatio(d.short_text_accuracy, TypeAccuracy(d.results, "short_text"))
             /\ \A i \in 1..Len(d.results) :
                   d.results[i].question_id \in QuestionIds
                      => d.results[i].is_correct =
                            validate_answer(QuestionOf(d.results[i].question_id),
                                            d.results[i].model_answer)]_vars

\* the items of a task with an error number at least FAILED_ERRORS
TaskFailed(completed, task) ==
    Cardinality({k \in DOMAIN completed : k[1] = task /\ Truthy(completed[k].error)})
        >= FAILED_ERRORS

AllTasksFailed(completed) == \A t \in Tasks : TaskFailed(completed, t)

\* the items a checkpoint file holds
UDHeld(file) == IF file.exists /\ file.valid THEN DOMAIN file.results ELSE {}

\* C38: run_benchmark writes the result file only after every item is done
\* and not all three tasks have failed (5 or more failed items each), and
\* deletes the checkpoint only after that write; when all three have failed
\* it returns with the result file untouched and the checkpoint, holding
\* every item, in place.  A run takes every item of the checkpoint it finds,
\* failed or not, as completed and dispatches only the others; so a run
\* whose completed results show all tasks failed stays so and never writes
\* the result file.
C38_UDAllFailedKeepsCheckpoint ==
    [][/\ (ud_result_file' # ud_result_file)
            => /\ ud_phase = "running" /\ ud_phase' = "written"
               /\ ud_pending = {}
               /\ ~AllTasksFailed(ud_completed)
               /\ ud_checkpoint' = ud_checkpoint
       /\ (ud_checkpoint.exists /\ ~ud_checkpoint'.exists)
            => /\ ud_phase = "written"
               /\ ud_result_file.exists
               /\ ud_result_file.data = ud_output
       /\ (ud_phase = "running" /\ ud_phase' \in {"written", "done"})
            => /\ ud_pending = {}
               /\ (ud_phase' = "done") <=> AllTasksFailed(ud_completed)
               /\ (ud_phase' = "done")
                     => /\ ud_result_file' = ud_result_file
                        /\ ud_checkpoint' = ud_checkpoint
                        /\ UDHeld(ud_checkpoint) = AllWork
       /\ (ud_phase \in {"idle", "done"} /\ ud_phase' = "running")
            => /\ \A k \in UDHeld(ud_checkpoint) :
                     /\ k \notin ud_pending'
                     /\ k \in DOMAIN ud_completed'
                     /\ ud_completed'[k] = ud_checkpoint.results[k]
               /\ ud_pending' = AllWork \ UDHeld(ud_checkpoint)
       /\ (ud_phase = "running" /\ AllTasksFailed(ud_completed))
            => /\ ud_result_file' = ud_result_file
               /\ ud_phase' = "running" => AllTasksFailed(ud_completed')]_vars

\* a run made after the endpoint has recovered found every item in the
\* checkpoint of a run in which all tasks failed: it dispatches nothing and
\* there is still no result file
C38_Witness ==
    /\ ud_phase = "running"
    /\ ud_client = [t \in Tasks |-> "ok"]
    /\ ud_pending = {}
    /\ DOMAIN ud_completed = AllWork
    /\ AllTasksFailed(ud_completed)
    /\ ud_checkpoint.exists
    /\ ~ud_result_file.exists

====
